---- MODULE Spec2Model ----
(***************************************************************************)
(* LuckyCoin tip bot: the ledger, the transfer engine and the deposit      *)
(* reconciler, modelled over a PostgreSQL store with READ COMMITTED        *)
(* transactions, UNIQUE constraints and row locks.                         *)
(***************************************************************************)
EXTENDS Integers, Sequences, FiniteSets, TLC

(***************************************************************************)
(* Bounds of the model                                                     *)
(***************************************************************************)
\* largest amount, in lites, of a posting or a transfer
MaxAmount == 2
\* latest value of Date.now() in a run
MaxClock == 1
\* number of credit/debit calls in a run of the ledger store alone
MaxPosts == 3
\* number of statements that fail (timeout, lost connection) in a run
MaxFail == 1
\* number of blocks mined in a run of the deposit reconciler
MaxBlocks == 1
\* number of scan cycles in a run of the deposit reconciler
MaxScans == 3
\* starts of one bootstrap instance
MaxRuns == 1
\* calls of tips_try_pair by a session of its own in a run
MaxCalls == 2
\* calls of withRpcGate one command handler makes, one after the other
MaxGateCalls == 2
\* calls of ensureUser one handler makes, one after the other
MaxEnsure == 2
\* /deposit commands one chat sends, one after the other
MaxAsk == 2
\* number of queueSend calls in a run of the outbound queue
MaxJobs == 4
\* number of flood-wait answers in a run of the outbound queue
MaxFlood == 2

\* users.id
Users == {1, 2, 3}
Amounts == 1..MaxAmount

(***************************************************************************)
(* Program constants                                                       *)
(***************************************************************************)
\* insertLedger's "?? null": no row was returned
NullId == 0

\* type LedgerReason
LedgerReason ==
  {"deposit", "withdrawal", "tip_out", "tip_in",
   "rain_out", "rain_in", "airdrop_out", "airdrop_in"}

\* the connections pool.query may run a statement on (the bot's pool)
PoolConn == {"c1", "c2"}
\* the references credit and debit are called with: chain transaction ids
PostRefs == {"ta", "tb"}
\* the users credit and debit are called for
PostUsers == {1, 2}

\* the transfer calls in flight (two /tip commands)
XProcs == {"p1", "p2"}
\* the revisions of the transfer engine in the repository
Revs == {"ledger.ts", "part_013", "tips.ts"}

\* the deposit scanners that may run side by side: "w1" the worker.ts main
\* loop, "w2" scan_explorer.ts
Workers == {"w1", "w2"}
\* the sources a scanner's cycle may poll: worker.ts has the node path, the
\* explorer path and, in its earlier revision, scanOnce
ModesOf(w) == IF w = "w1" THEN {"rpc", "explorer", "legacy"} ELSE {"explorer"}
\* the client of bootstrap.ts
BootConn == "b"
\* the bootstrap instances that may be started side by side, each with its
\* own client
Boots == {"b1", "b2"}
\* the revisions of the bootstrap in the repository
BootRevs == {"bootstrap.ts", "part_008"}
\* the /withdraw commands in flight
WdProcs == {"h1", "h2"}
\* the session that issues SELECT public.tips_try_pair(id)
PairConn == "k"

\* pool connections, one checked-out client per call that uses
\* withClient / pool.connect, the connection of each scanner process and the
\* bootstrap client
Conns == PoolConn \cup XProcs \cup Workers \cup {BootConn} \cup Boots
           \cup {PairConn}

VARIABLES
  ledger,                 \* committed rows of public.ledger
  transferred_tip_lites,  \* committed users.transferred_tip_lites, per user id
  deposits,               \* committed rows of public.deposits
  tips,                   \* committed rows of public.tips (a sequence: no UNIQUE)
  tx,                     \* per connection: transaction status and pending writes
  nextId,                 \* next value of the ledger id sequence
  nextDepId,              \* next value of the deposits id sequence
  eff,                    \* per transfer call: its effects that are committed
  last,                   \* the last credit/debit call and what it returned
  rev,                    \* the revision of the transfer engine that is deployed
  xf,                     \* per transfer call: arguments, position, locals
  clock,                  \* Date.now()
  nfail,                  \* statements that have failed so far
  tip,                    \* height of the chain tip
  chain,                  \* the wallet's transactions on the chain
  scan,                   \* per scanner: source, poll result, position
  obs,                    \* per output: how the polls so far have observed it
  nscan,                  \* scan cycles started so far
  withdrawals,            \* committed rows of public.withdrawals
  sent,                   \* the payments the node wallet has sent
  wd,                     \* per /withdraw command: arguments, position, locals
  boot,                   \* per bootstrap instance: revision, position, locals
  advlock,                \* the session that holds advisory lock 922337203
  created_at,             \* ledger.created_at of the rows written before the run
  pair,                   \* the session that calls tips_try_pair: position, locals
  gate,                   \* index.ts: rpcInflight, rpcWaiters, the job queue, the calls
  users,                  \* committed rows of public.users: id, tg_user_id, username
  users_id_seq,           \* the last value of the sequence behind users.id
  eu,                     \* per caller of ensureUser: position, argument, row returned
  deposit_address,        \* committed users.deposit_address of the user who asks
  labelled,               \* the node's addresses under the user's label, oldest first
  da,                     \* per call of getOrAssignDepositAddress: position, locals
  rp,                     \* the calls of rpc(): runtime, position, attempt, errors
  tg                      \* tg.js: queue, running, the runner's position, the log

dbvars ==
  <<ledger, transferred_tip_lites, deposits, tips, tx, nextId, nextDepId, eff>>
xvars == <<rev, xf, clock, nfail>>
svars == <<tip, chain, scan, obs, nscan>>
uvars == <<users, users_id_seq, eu>>
avars == <<deposit_address, labelled, da>>
qvars == <<avars, rp, tg>>
pvars == <<created_at, pair, gate, uvars, qvars>>
\* everything but qvars
base ==
  <<ledger, transferred_tip_lites, deposits, tips, tx, nextId, nextDepId,
    eff, last, rev, xf, clock, nfail, tip, chain, scan, obs, nscan,
    withdrawals, sent, wd, boot, advlock, created_at, pair, gate, users,
    users_id_seq, eu>>
bvars == <<withdrawals, sent, wd, boot, advlock, pvars>>
vars == <<ledger, transferred_tip_lites, deposits, tips, tx, nextId, nextDepId,
          eff, last, rev, xf, clock, nfail, tip, chain, scan, obs, nscan,
          withdrawals, sent, wd, boot, advlock, created_at, pair, gate,
          users, users_id_seq, eu, deposit_address, labelled, da, rp, tg>>

(***************************************************************************)
(* The chain as the coin node and the explorer report it                   *)
(***************************************************************************)
\* worker.ts: MIN_CONF = Number(process.env.MIN_CONFIRMATIONS || "6")
MIN_CONF == 6
\* bootstrap.ts: MIN_CONFS = Number(process.env.MIN_CONFIRMATIONS || 6)
MIN_CONFS == MIN_CONF

\* the wallet's transactions and the block each one is mined in
Txids == {"t1", "t2"}
HeightOf == [t \in Txids |-> IF t = "t1" THEN 1 ELSE 2]
\* the outputs that pay an address of the wallet, in the order the sources
\* list them
AllOuts ==
  <<[txid |-> "t1", vout |-> 0], [txid |-> "t1", vout |-> 1],
    [txid |-> "t2", vout |-> 0]>>
Outs == {AllOuts[i] : i \in 1..Len(AllOuts)}
\* the explorer's status of a mined transaction (block_height 0: none given)
Mined == [t \in Txids |-> [confirmed |-> TRUE, block_height |-> HeightOf[t]]]
\* ExplorerVout.value, in lites
ValueOf(o) == IF o.vout = 0 THEN 2 ELSE 1

\* public.wallet_addresses: address -> user_id; "H" is an address of the
\* wallet that is no user's deposit address
Addresses == {"A1", "A2", "H"}
wallet_addresses == [a \in {"A1", "A2"} |-> IF a = "A1" THEN 1 ELSE 2]
\* the wallet label of an address: the owner's Telegram user id
LabelOf(a) == IF a = "A1" THEN "101" ELSE IF a = "A2" THEN "102" ELSE "hot"
\* Number(label), where /^\d+$/ matches
NumberOf == [l \in {"101", "102"} |-> IF l = "101" THEN 101 ELSE 102]
\* public.users: tg_user_id -> id
UserIdOfTg == [g \in {101, 102} |-> g - 100]

\* the tip before the first block of a run is mined: "t1" is one
\* confirmation short of MIN_CONF
InitTip == MIN_CONF - 1

\* a scanner between two cycles ("at": where the cycle's failure has hit)
NoScan ==
  [pc |-> "idle", mode |-> "rpc", tip |-> 0, todo |-> <<>>, failed |-> FALSE,
   at |-> ""]

\* no bootstrap instance ("exit": the path on which the instance leaves)
NoBoot ==
  [pc |-> "idle", rev |-> "bootstrap.ts", ro |-> FALSE, wrote |-> 0,
   run |-> 0, complete |-> FALSE, exit |-> ""]

\* no /withdraw command
NoWd ==
  [pc |-> "done", user |-> 1, to |-> "X", amt |-> 0, txid |-> "", res |-> ""]

\* no call of tips_try_pair ("n": calls so far)
NoPair == [pc |-> "idle", id |-> 0, match |-> 0, n |-> 0]

\* no row older than the run
NoLegacy == [i \in {} |-> 0]

\* index.ts: MAX_RPC_INFLIGHT = Number(process.env.MAX_RPC_INFLIGHT ?? "4")
MAX_RPC_INFLIGHT == 4

\* the command handlers of a run that call withRpcGate
Callers == 1..(MAX_RPC_INFLIGHT + 2)

\* the bot process before any call of withRpcGate: let rpcInflight = 0;
\* const rpcWaiters = []; no promise job is queued
NoGate ==
  [rpcInflight |-> 0, rpcWaiters |-> <<>>, jobs |-> <<>>,
   pc |-> [k \in Callers |-> "idle"], n |-> [k \in Callers |-> 0]]

\* SQL NULL, JavaScript null and undefined; a text value s is Text(s)
Null == {}
Text(s) == {s}

\* the handlers and scripts that call ensureUser
EuProcs == {"e1", "e2"}

\* no call of ensureUser
NoEu == [pc |-> "idle", tg |-> [id |-> 0, username |-> Null],
         row |-> [id |-> NullId, tg_user_id |-> 0, username |-> Null], n |-> 0]

\* the rows of public.users the ledger's user ids stand for
KnownUsers ==
  {[id |-> u, tg_user_id |-> 100 + u, username |-> Null] : u \in Users}

\* no call of ensureUser in the run
UsersOff ==
  /\ users = KnownUsers
  /\ users_id_seq = Cardinality(Users)
  /\ eu = [p \in EuProcs |-> NoEu]

\* the /deposit commands in flight, of one user
DaProcs == {"d1", "d2"}

\* no call of getOrAssignDepositAddress ("ret": what the last call returned)
NoDa == [pc |-> "idle", addr |-> Null, ret |-> Null, n |-> 0]

\* no /deposit command in the run
AddrOff ==
  /\ deposit_address = Null
  /\ labelled = <<>>
  /\ da = [p \in DaProcs |-> NoDa]

\* the callers of rpc()
RpcProcs == {"r1", "r2"}

\* no call of rpc() ("errs": what the attempts threw, "reached": requests the
\* node has received, "native": AbortSignal.timeout exists)
NoRpc == [pc |-> "idle", attempt |-> 0, errs |-> <<>>, res |-> "",
          reached |-> 0]

RpcOff == rp = [native |-> TRUE, call |-> [p \in RpcProcs |-> NoRpc]]

\* tg.js with an empty queue and no runner ("job": the job the runner has
\* shifted, "n": jobs queued so far, "log": the jobs attempted, in order,
\* "inflight": attempts that have not settled, "floods": flood-waits so far)
NoTg == [queue |-> <<>>, running |-> FALSE, pc |-> "idle", job |-> 0, n |-> 0,
         log |-> <<>>, inflight |-> 0, floods |-> 0]

\* what the later sections add is at rest
QOff == AddrOff /\ RpcOff /\ tg = NoTg

\* no withdrawal, no bootstrap, no pairing call, no RPC
BootOff ==
  /\ QOff
  /\ created_at = NoLegacy
  /\ pair = NoPair
  /\ gate = NoGate
  /\ UsersOff
  /\ withdrawals = {}
  /\ sent = {}
  /\ wd = [h \in WdProcs |-> NoWd]
  /\ boot = [b \in Boots |-> NoBoot]
  /\ advlock = "none"

\* no chain and no scanner
ScanOff ==
  /\ tip = 0
  /\ chain = [send |-> [t \in Txids |-> FALSE],
              pays |-> [o \in Outs |-> "H"], status |-> Mined]
  /\ scan = [w \in Workers |-> NoScan]
  /\ obs = [o \in Outs |-> {}]
  /\ nscan = 0

(***************************************************************************)
(* The store                                                               *)
(***************************************************************************)
RECURSIVE SumDelta(_)
SumDelta(rows) ==
  IF rows = {} THEN 0
  ELSE LET r == CHOOSE x \in rows : TRUE
       IN r.delta_lites + SumDelta(rows \ {r})

ZeroTtl == [u \in Users |-> 0]

\* a connection outside a transaction, nothing pending
IdleTx ==
  [st |-> "idle", ledger |-> {}, ttl |-> ZeroTtl, tips |-> <<>>,
   deps |-> {}, locks |-> {}, effs |-> {}]

\* what one statement writes
NoWrite ==
  [ledger |-> {}, ttl |-> ZeroTtl, tips |-> <<>>, deps |-> {}, locks |-> {},
   effs |-> {}]

\* rows of the ledger a statement on connection c sees: committed rows and
\* the rows of its own open transaction
Visible(c) == ledger \cup tx[c].ledger

\* the UNIQUE (reason, ref) check has to wait for a transaction of another
\* connection that holds an uncommitted row with the same key
KeyHeldElsewhere(c, reason, ref) ==
  \E d \in Conns \ {c} : \E r \in tx[d].ledger : r.reason = reason /\ r.ref = ref

Conflict(c, reason, ref) ==
  \E r \in Visible(c) : r.reason = reason /\ r.ref = ref

\* SELECT id FROM ledger WHERE reason = $1 AND ref = $2 LIMIT 1
findLedgerIdByRef(c, reason, ref) ==
  IF Conflict(c, reason, ref)
  THEN (CHOOSE r \in Visible(c) : r.reason = reason /\ r.ref = ref).id
  ELSE NullId

\* the rows INSERT ... ON CONFLICT ON CONSTRAINT ledger_reason_ref_unique
\* DO NOTHING adds
insertLedgerRowsAlways(c, userId, delta, reason, ref) ==
  {[id |-> nextId, user_id |-> userId, delta_lites |-> delta,
    reason |-> reason, ref |-> ref]}

insertLedgerRows(c, userId, delta, reason, ref) ==
  IF Conflict(c, reason, ref) THEN {}
  ELSE {[id |-> nextId, user_id |-> userId, delta_lites |-> delta,
         reason |-> reason, ref |-> ref]}

\* ... RETURNING id;  res.rows[0]?.id ?? null
insertLedger(c, userId, delta, reason, ref) ==
  LET rows == insertLedgerRows(c, userId, delta, reason, ref)
  IN IF rows = {} THEN NullId ELSE (CHOOSE r \in rows : TRUE).id

\* one statement's writes on connection c: inside an open transaction they
\* stay pending, outside they are committed at once (autocommit)
Exec(c, w) ==
  /\ tx[c].st # "aborted"
  /\ nextId' = nextId + Cardinality(w.ledger)
  /\ nextDepId' = nextDepId + Cardinality(w.deps)
  /\ IF tx[c].st = "tx"
     THEN /\ tx' = [tx EXCEPT ![c] =
                 [st |-> "tx",
                  ledger |-> @.ledger \cup w.ledger,
                  ttl |-> [u \in Users |-> @.ttl[u] + w.ttl[u]],
                  tips |-> @.tips \o w.tips,
                  deps |-> @.deps \cup w.deps,
                  locks |-> @.locks \cup w.locks,
                  effs |-> @.effs \cup w.effs]]
          /\ UNCHANGED <<ledger, transferred_tip_lites, deposits, tips, eff>>
     ELSE /\ ledger' = ledger \cup w.ledger
          /\ transferred_tip_lites' =
               [u \in Users |-> transferred_tip_lites[u] + w.ttl[u]]
          /\ tips' = tips \o w.tips
          /\ deposits' = deposits \cup w.deps
          /\ eff' = [p \in XProcs |->
                      eff[p] \cup {e[2] : e \in {f \in w.effs : f[1] = p}}]
          /\ UNCHANGED tx

\* BEGIN on connection c ("there is already a transaction in progress" is a
\* warning, not an error)
Begin(c) ==
  /\ tx[c].st # "aborted"
  /\ tx' = [tx EXCEPT ![c].st = "tx"]
  /\ UNCHANGED <<ledger, transferred_tip_lites, deposits, tips, nextId,
               nextDepId, eff>>

\* COMMIT on connection c: the pending writes of its transaction become
\* visible together; outside a transaction it is a warning; in an aborted
\* transaction it rolls back
Commit(c) ==
  /\ tx' = [tx EXCEPT ![c] = IdleTx]
  /\ UNCHANGED <<nextId, nextDepId>>
  /\ IF tx[c].st = "tx"
     THEN /\ ledger' = ledger \cup tx[c].ledger
          /\ transferred_tip_lites' =
               [u \in Users |-> transferred_tip_lites[u] + tx[c].ttl[u]]
          /\ tips' = tips \o tx[c].tips
          /\ deposits' = deposits \cup tx[c].deps
          /\ eff' = [p \in XProcs |->
                      eff[p] \cup {e[2] : e \in {f \in tx[c].effs : f[1] = p}}]
     ELSE UNCHANGED <<ledger, transferred_tip_lites, deposits, tips, eff>>

\* ROLLBACK on connection c
Rollback(c) ==
  /\ tx' = [tx EXCEPT ![c] = IdleTx]
  /\ UNCHANGED <<ledger, transferred_tip_lites, deposits, tips, nextId,
               nextDepId, eff>>

\* a statement on connection c fails: inside a transaction the transaction is
\* aborted (its writes are gone, its locks stay until ROLLBACK)
Abort(c) ==
  /\ tx' = IF tx[c].st = "idle" THEN tx
           ELSE [tx EXCEPT ![c] = [IdleTx EXCEPT !.st = "aborted",
                                                 !.locks = tx[c].locks]]
  /\ UNCHANGED <<ledger, transferred_tip_lites, deposits, tips, nextId,
               nextDepId, eff>>

\* a users row is locked by the open transaction of another connection
RowLockedElsewhere(c, u) == \E d \in Conns \ {c} : u \in tx[d].locks

(***************************************************************************)
(* Balance accessors                                                       *)
(***************************************************************************)
\* balance.ts: SUM(delta_lites) over all the user's rows
getUserBalanceLitesOf(rows, userId) ==
  SumDelta({r \in rows : r.user_id = userId})

getUserBalanceLites(userId) == getUserBalanceLitesOf(ledger, userId)

\* ledger.ts / db.ts: transferred_tip_lites + SUM over deposit and withdrawal
balanceLitesOf(rows, ttl, userId) ==
  ttl[userId]
  + SumDelta({r \in rows : r.user_id = userId
                           /\ r.reason \in {"deposit", "withdrawal"}})

balanceLites(userId) == balanceLitesOf(ledger, transferred_tip_lites, userId)

(***************************************************************************)
(* credit / debit                                                          *)
(***************************************************************************)
NoCall ==
  [n |-> 0, op |-> "none", user |-> 0, amt |-> 0, reason |-> "none",
   ref |-> "none", existed |-> FALSE, ret |-> NullId, threw |-> FALSE]

\* what the call has returned, for a posting of delta lites
Returned(op, c, userId, amt, delta, reason, ref) ==
  [n |-> last.n + 1, op |-> op, user |-> userId, amt |-> amt,
   reason |-> reason, ref |-> ref, existed |-> Conflict(c, reason, ref),
   ret |-> IF amt <= 0 THEN NullId
           ELSE insertLedger(c, userId, delta, reason, ref),
   threw |-> amt <= 0]

\* credit without its check of the amount
creditAny(c, userId, amt, reason, ref) ==
  /\ ~KeyHeldElsewhere(c, reason, ref)
  /\ Exec(c, [NoWrite EXCEPT
               !.ledger = insertLedgerRows(c, userId, amt, reason, ref)])

\* credit(userId, amountLites, reason, ref): throws on amt <= 0, else
\* insertLedger(userId, amt, reason, ref)
credit(c, userId, amt, reason, ref) ==
  IF amt <= 0
  THEN UNCHANGED dbvars
  ELSE /\ ~KeyHeldElsewhere(c, reason, ref)
       /\ Exec(c, [NoWrite EXCEPT
                    !.ledger = insertLedgerRows(c, userId, amt, reason, ref)])

\* debit(userId, amountLites, reason, ref): throws on amt <= 0, else
\* insertLedger(userId, -amt, reason, ref)
debit(c, userId, amt, reason, ref) ==
  IF amt <= 0
  THEN UNCHANGED dbvars
  ELSE /\ ~KeyHeldElsewhere(c, reason, ref)
       /\ Exec(c, [NoWrite EXCEPT
                    !.ledger = insertLedgerRows(c, userId, 0 - amt, reason, ref)])

\* worker.ts: credit(user.id, amountLites, "deposit", ref), through query():
\* any pool connection
Credit ==
  /\ last.n < MaxPosts
  /\ \E c \in PoolConn, u \in PostUsers, a \in 0..MaxAmount, ref \in PostRefs :
       /\ credit(c, u, a, "deposit", ref)
       /\ last' = Returned("credit", c, u, a, a, "deposit", ref)

\* index.ts: debit(sender.id, amount, "withdrawal", txid)
Debit ==
  /\ last.n < MaxPosts
  /\ \E c \in PoolConn, u \in PostUsers, a \in 0..MaxAmount, ref \in PostRefs :
       /\ debit(c, u, a, "withdrawal", ref)
       /\ last' = Returned("debit", c, u, a, 0 - a, "withdrawal", ref)

(***************************************************************************)
(* Specification of the ledger store alone                                 *)
(***************************************************************************)
InitDb ==
  /\ ledger = {}
  /\ transferred_tip_lites = ZeroTtl
  /\ deposits = {}
  /\ tips = <<>>
  /\ tx = [c \in Conns |-> IdleTx]
  /\ nextId = 1
  /\ nextDepId = Cardinality(deposits) + 1
  /\ eff = [p \in XProcs |-> {}]

\* no transfer call
NoXf ==
  [pc |-> "done", from |-> 1, to |-> 1, amt |-> 0, ref |-> "", chk |-> FALSE,
   bal |-> 0, outId |-> NullId, inId |-> NullId, res |-> "", issued |-> {}]

InitPost ==
  /\ InitDb
  /\ last = NoCall
  /\ rev = "ledger.ts"
  /\ xf = [p \in XProcs |-> NoXf]
  /\ clock = 0
  /\ nfail = 0
  /\ ScanOff
  /\ BootOff

NextPost ==
  \/ Credit /\ UNCHANGED <<bvars, xvars, svars>>
  \/ Debit /\ UNCHANGED <<bvars, xvars, svars>>

SpecPost == InitPost /\ [][NextPost]_vars

(***************************************************************************)
(* Claims about the ledger store                                           *)
(***************************************************************************)
LedgerKeyUnique ==
  \A r1 \in ledger, r2 \in ledger :
    (r1.reason = r2.reason /\ r1.ref = r2.ref) => r1 = r2

\* a credit or debit step whose (reason, ref) is already in the ledger
RepeatedPost ==
  /\ last'.n # last.n
  /\ \E r \in ledger : r.reason = last'.reason /\ r.ref = last'.ref

\* C1: a credit/debit call with a (reason, reference) that is already posted,
\* whatever its user or amount, adds no ledger row and leaves every user's
\* balance (under both balance formulas) as it was; and no state holds two
\* ledger entries with one (reason, reference).
C1_PostIdempotent ==
  /\ []LedgerKeyUnique
  /\ [][RepeatedPost =>
         /\ ledger' = ledger
         /\ \A u \in Users :
              /\ getUserBalanceLites(u)' = getUserBalanceLites(u)
              /\ balanceLites(u)' = balanceLites(u)]_vars

\* a second call for a posted (reason, reference), with another user and
\* another amount than the row's, has returned
C1_Witness ==
  /\ last.existed /\ ~last.threw
  /\ \E r \in ledger :
       /\ r.reason = last.reason /\ r.ref = last.ref
       /\ r.user_id # last.user
       /\ r.delta_lites \notin {last.amt, 0 - last.amt}

\* C9: a credit/debit call that meets a (reason, reference) conflict returns
\* the id of the row that is already there, not an error and not null.
C9_ConflictReturnsExistingId ==
  (last.existed /\ last.amt > 0) =>
    /\ ~last.threw
    /\ \E r \in ledger :
         r.reason = last.reason /\ r.ref = last.ref /\ r.id = last.ret

(***************************************************************************)
(* Transfer engine: ledger.ts transfer (statements through query()),       *)
(* part_013 transfer (one client, sender row locked), tips.ts tipLites     *)
(***************************************************************************)
\* the connections a statement of call p may run on: withClient and
\* pool.connect keep one client for the call; query() is pool.query, which
\* hands each statement to whichever pool client is free, so that under load
\* the successive statements of one call run on different connections
ConnOf(p) ==
  IF rev # "ledger.ts" THEN {p}
  ELSE IF \A c \in PoolConn : tx[c] = IdleTx
       THEN {CHOOSE c \in PoolConn : TRUE}  \* all alike: one stands for any
       ELSE PoolConn

\* `tip:${now.getTime()}:${fromUserId}->${toUserId}:${amountLites}`
TipRef(now, from, to, amt) ==
  "tip:" \o ToString(now) \o ":" \o ToString(from) \o "->" \o ToString(to)
    \o ":" \o ToString(amt)

\* users.transferred_tip_lites as a statement on connection c reads it
VisibleTtl(c) == [u \in Users |-> transferred_tip_lites[u] + tx[c].ttl[u]]

\* balanceLites / getBalanceLitesWithClient on connection c
balanceOn(c, userId) == balanceLitesOf(Visible(c), VisibleTtl(c), userId)

\* the sender has enough: the negation of `bal < amountLites`
SufficientNoCheck(bal, amt) == TRUE

Sufficient(bal, amt) == ~(bal < amt)

\* if (amountLites <= 0n) throw ...; if (fromUserId === toUserId) throw ...
transfer_validateNoCheck(p) ==
  /\ xf[p].pc = "start"
  /\ xf' = [xf EXCEPT ![p] =
       IF rev = "ledger.ts" THEN [@ EXCEPT !.pc = "bal"]
       ELSE IF rev = "part_013"
       THEN [@ EXCEPT !.pc = "begin",
                      !.ref = TipRef(clock, xf[p].from, xf[p].to, xf[p].amt)]
       ELSE [@ EXCEPT !.pc = "begin"]]
  /\ UNCHANGED <<bvars, svars, dbvars, last, rev, clock, nfail>>

transfer_validate(p) ==
  /\ xf[p].pc = "start"
  /\ xf' = [xf EXCEPT ![p] =
       IF xf[p].amt <= 0
       THEN [@ EXCEPT !.pc = "done", !.res = "Amount must be positive"]
       ELSE IF xf[p].from = xf[p].to
       THEN [@ EXCEPT !.pc = "done", !.res = "Cannot tip yourself"]
       ELSE IF rev = "ledger.ts" THEN [@ EXCEPT !.pc = "bal"]
       ELSE IF rev = "part_013"
       THEN [@ EXCEPT !.pc = "begin",
                      !.ref = TipRef(clock, xf[p].from, xf[p].to, xf[p].amt)]
       ELSE [@ EXCEPT !.pc = "begin"]]
  /\ UNCHANGED <<bvars, svars, dbvars, last, rev, clock, nfail>>

\* BEGIN
transfer_begin(p) ==
  /\ xf[p].pc = "begin"
  /\ \E c \in ConnOf(p) : Begin(c)
  /\ xf' = [xf EXCEPT ![p].pc =
              IF rev = "ledger.ts" THEN "out"
              ELSE IF rev = "part_013" THEN "lock" ELSE "bal"]
  /\ UNCHANGED <<bvars, svars, last, rev, clock, nfail>>

\* part_013: SELECT id FROM users WHERE id = $1 FOR UPDATE
transfer_lock(p) ==
  /\ xf[p].pc = "lock"
  /\ \E c \in ConnOf(p) :
       /\ ~RowLockedElsewhere(c, xf[p].from)
       /\ Exec(c, [NoWrite EXCEPT !.locks = {xf[p].from}])
  /\ xf' = [xf EXCEPT ![p].pc = "bal"]
  /\ UNCHANGED <<bvars, svars, last, rev, clock, nfail>>

\* the balance check; ledger.ts and tips.ts build the reference right after
transfer_balance(p) ==
  /\ xf[p].pc = "bal"
  /\ \E c \in ConnOf(p) :
       /\ tx[c].st # "aborted"
       /\ LET bal == balanceOn(c, xf[p].from)
              x == [xf[p] EXCEPT !.chk = TRUE, !.bal = bal]
          IN xf' = [xf EXCEPT ![p] =
               IF ~Sufficient(bal, xf[p].amt)
               THEN [x EXCEPT !.res = "Insufficient balance",
                              !.pc = IF rev = "ledger.ts" THEN "done"
                                     ELSE IF rev = "part_013" THEN "rollback1"
                                     ELSE "rollback"]
               ELSE IF rev = "ledger.ts"
               THEN [x EXCEPT !.pc = "begin",
                       !.ref = TipRef(clock, xf[p].from, xf[p].to, xf[p].amt)]
               ELSE IF rev = "tips.ts"
               THEN [x EXCEPT !.pc = "out",
                       !.ref = TipRef(clock, xf[p].from, xf[p].to, xf[p].amt)]
               ELSE [x EXCEPT !.pc = "out"]]
  /\ UNCHANGED <<bvars, svars, dbvars, last, rev, clock, nfail>>

\* part_013: await c.query("ROLLBACK") before throwing "Insufficient balance"
transfer_rollback1(p) ==
  /\ xf[p].pc = "rollback1"
  /\ \E c \in ConnOf(p) : Rollback(c)
  /\ xf' = [xf EXCEPT ![p].pc = "rollback"]
  /\ UNCHANGED <<bvars, svars, last, rev, clock, nfail>>

\* the tip_out row: insertLedger (ON CONFLICT DO NOTHING); tips.ts has a plain
\* INSERT, which the UNIQUE constraint fails on a posted reference
transfer_out(p) ==
  /\ xf[p].pc = "out"
  /\ \E c \in ConnOf(p) :
       /\ ~KeyHeldElsewhere(c, "tip_out", xf[p].ref)
       /\ LET rows == insertLedgerRows(c, xf[p].from, 0 - xf[p].amt,
                                       "tip_out", xf[p].ref)
          IN IF rev = "tips.ts" /\ rows = {}
             THEN /\ tx[c].st # "aborted"
                  /\ Abort(c)
                  /\ xf' = [xf EXCEPT ![p].pc = "rollback", ![p].res = "error"]
             ELSE /\ Exec(c, [NoWrite EXCEPT !.ledger = rows,
                               !.effs = IF rows = {} THEN {} ELSE {<<p, "out">>}])
                  /\ xf' = [xf EXCEPT ![p].pc = "in",
                       ![p].outId = insertLedger(c, xf[p].from, 0 - xf[p].amt,
                                                 "tip_out", xf[p].ref),
                       ![p].issued = @ \cup {"out"}]
  /\ UNCHANGED <<bvars, svars, last, rev, clock, nfail>>

\* the tip_in row
transfer_in(p) ==
  /\ xf[p].pc = "in"
  /\ \E c \in ConnOf(p) :
       /\ ~KeyHeldElsewhere(c, "tip_in", xf[p].ref)
       /\ LET rows == insertLedgerRows(c, xf[p].to, xf[p].amt,
                                       "tip_in", xf[p].ref)
              inId == insertLedger(c, xf[p].to, xf[p].amt, "tip_in", xf[p].ref)
          IN IF rev = "tips.ts" /\ rows = {}
             THEN /\ tx[c].st # "aborted"
                  /\ Abort(c)
                  /\ xf' = [xf EXCEPT ![p].pc = "rollback", ![p].res = "error"]
             ELSE /\ Exec(c, [NoWrite EXCEPT !.ledger = rows,
                               !.effs = IF rows = {} THEN {} ELSE {<<p, "in">>}])
                  /\ xf' = [xf EXCEPT ![p].inId = inId,
                       ![p].issued = @ \cup {"in"},
                       ![p].pc = IF rev = "tips.ts" THEN "dec"
                                 ELSE IF xf[p].outId = NullId THEN "findOut"
                                 ELSE IF inId = NullId THEN "findIn"
                                 ELSE "dec"]
  /\ UNCHANGED <<bvars, svars, last, rev, clock, nfail>>

\* if (outId === null) outId = await findLedgerIdByRef("tip_out", ref)
transfer_findOut(p) ==
  /\ xf[p].pc = "findOut"
  /\ \E c \in ConnOf(p) :
       /\ tx[c].st # "aborted"
       /\ xf' = [xf EXCEPT
            ![p].outId = findLedgerIdByRef(c, "tip_out", xf[p].ref),
            ![p].pc = IF xf[p].inId = NullId THEN "findIn" ELSE "dec"]
  /\ UNCHANGED <<bvars, svars, dbvars, last, rev, clock, nfail>>

\* if (inId === null) inId = await findLedgerIdByRef("tip_in", ref)
transfer_findIn(p) ==
  /\ xf[p].pc = "findIn"
  /\ \E c \in ConnOf(p) :
       /\ tx[c].st # "aborted"
       /\ xf' = [xf EXCEPT
            ![p].inId = findLedgerIdByRef(c, "tip_in", xf[p].ref),
            ![p].pc = "dec"]
  /\ UNCHANGED <<bvars, svars, dbvars, last, rev, clock, nfail>>

\* UPDATE users SET transferred_tip_lites = transferred_tip_lites - $1
\*  WHERE id = fromUserId
transfer_dec(p) ==
  /\ xf[p].pc = "dec"
  /\ \E c \in ConnOf(p) :
       /\ ~RowLockedElsewhere(c, xf[p].from)
       /\ Exec(c, [NoWrite EXCEPT
                    !.ttl = [u \in Users |->
                               IF u = xf[p].from THEN 0 - xf[p].amt ELSE 0],
                    !.locks = {xf[p].from},
                    !.effs = {<<p, "dec">>}])
  /\ xf' = [xf EXCEPT ![p].pc = "inc", ![p].issued = @ \cup {"dec"}]
  /\ UNCHANGED <<bvars, svars, last, rev, clock, nfail>>

\* UPDATE users SET transferred_tip_lites = transferred_tip_lites + $1
\*  WHERE id = toUserId
transfer_inc(p) ==
  /\ xf[p].pc = "inc"
  /\ \E c \in ConnOf(p) :
       /\ ~RowLockedElsewhere(c, xf[p].to)
       /\ Exec(c, [NoWrite EXCEPT
                    !.ttl = [u \in Users |->
                               IF u = xf[p].to THEN xf[p].amt ELSE 0],
                    !.locks = {xf[p].to},
                    !.effs = {<<p, "inc">>}])
  /\ xf' = [xf EXCEPT ![p].pc = "audit", ![p].issued = @ \cup {"inc"}]
  /\ UNCHANGED <<bvars, svars, last, rev, clock, nfail>>

\* recordTipAudit: INSERT INTO tips ... ON CONFLICT DO NOTHING (the table has
\* no UNIQUE constraint to conflict with)
recordTipAudit(p) ==
  <<[from_user_id |-> xf[p].from, to_user_id |-> xf[p].to,
     amount_lites |-> IF xf[p].amt < 0 THEN 0 - xf[p].amt ELSE xf[p].amt,
     ledger_out_id |-> xf[p].outId, ledger_in_id |-> xf[p].inId]>>

transfer_audit(p) ==
  /\ xf[p].pc = "audit"
  /\ \E c \in ConnOf(p) :
       Exec(c, [NoWrite EXCEPT !.tips = recordTipAudit(p),
                               !.effs = {<<p, "audit">>}])
  /\ xf' = [xf EXCEPT ![p].pc = "commit", ![p].issued = @ \cup {"audit"}]
  /\ UNCHANGED <<bvars, svars, last, rev, clock, nfail>>

\* COMMIT
transfer_commit(p) ==
  /\ xf[p].pc = "commit"
  /\ \E c \in ConnOf(p) : Commit(c)
  /\ xf' = [xf EXCEPT ![p].pc = "done", ![p].res = "ok"]
  /\ UNCHANGED <<bvars, svars, last, rev, clock, nfail>>

\* catch (e) { ROLLBACK; throw e }
transfer_rollback(p) ==
  /\ xf[p].pc = "rollback"
  /\ \E c \in ConnOf(p) : Rollback(c)
  /\ xf' = [xf EXCEPT ![p].pc = "done"]
  /\ UNCHANGED <<bvars, svars, last, rev, clock, nfail>>

\* positions at which the call awaits a statement inside its try block
InTry(p) ==
  \/ xf[p].pc \in {"pairOut", "pairIn"}
  \/ xf[p].pc \in {"out", "in", "findOut", "findIn", "dec", "inc", "audit",
                   "commit"}
  \/ xf[p].pc \in {"lock", "bal"} /\ rev = "part_013"
  \/ xf[p].pc \in {"begin", "bal"} /\ rev = "tips.ts"

\* positions at which the call awaits a statement outside any try block
BeforeTry(p) ==
  \/ xf[p].pc \in {"bal", "begin"} /\ rev = "ledger.ts"
  \/ xf[p].pc = "begin" /\ rev \in {"part_013", "part_012"}

\* the statement call p awaits needs a users row or a ledger key that the
\* open transaction of connection d holds
BlockedBy(p, d) ==
  \/ xf[p].pc \in {"lock", "dec"} /\ xf[p].from \in tx[d].locks
  \/ xf[p].pc = "inc" /\ xf[p].to \in tx[d].locks
  \/ /\ xf[p].pc \in {"out", "in"}
     /\ \E r \in tx[d].ledger :
          /\ r.ref = xf[p].ref
          /\ r.reason = (IF xf[p].pc = "out" THEN "tip_out" ELSE "tip_in")

\* two calls on their own clients wait for each other: PostgreSQL fails the
\* statement of one of them (deadlock detected)
Deadlocked(p) ==
  /\ rev # "ledger.ts"
  /\ \E q \in XProcs \ {p} : BlockedBy(p, q) /\ BlockedBy(q, p)

\* a statement of the call throws: the connection it ran on has an aborted
\* transaction, the statement is the victim of a deadlock, or it times out
\* or loses its connection
transfer_fail(p) ==
  /\ InTry(p) \/ BeforeTry(p)
  /\ \E c \in ConnOf(p) :
       /\ tx[c].st = "aborted" \/ Deadlocked(p) \/ nfail < MaxFail
       /\ nfail' = IF tx[c].st = "aborted" \/ Deadlocked(p)
                   THEN nfail ELSE nfail + 1
       /\ Abort(c)
  /\ xf' = [xf EXCEPT ![p].res = "error",
                      ![p].pc = IF InTry(p) THEN "rollback" ELSE "done"]
  /\ UNCHANGED <<bvars, svars, last, rev, clock>>

\* time passes (the clock is read only to build a reference)
Tick ==
  /\ clock < MaxClock
  /\ \E p \in XProcs : xf[p].ref = "" /\ xf[p].pc # "done"
  /\ clock' = clock + 1
  /\ UNCHANGED <<bvars, svars, dbvars, last, rev, xf, nfail>>

NewXf(ft, amt) ==
  [pc |-> "start", from |-> ft[1], to |-> ft[2], amt |-> amt, ref |-> "",
   chk |-> FALSE, bal |-> 0, outId |-> NullId, inId |-> NullId, res |-> "",
   issued |-> {}]

\* user 1 holds a confirmed deposit, user 2 a deposit and a withdrawal
FundedLedger ==
  {[id |-> 1, user_id |-> 1, delta_lites |-> MaxAmount + 1,
    reason |-> "deposit", ref |-> "ta:0"],
   [id |-> 2, user_id |-> 2, delta_lites |-> MaxAmount + 1,
    reason |-> "deposit", ref |-> "tb:0"],
   [id |-> 3, user_id |-> 2, delta_lites |-> 0 - 1,
    reason |-> "withdrawal", ref |-> "tc"]}

\* two /tip commands are in flight over a funded ledger
InitX(revs, args1, amts1, args2, amts2) ==
  /\ ledger = FundedLedger
  /\ transferred_tip_lites = ZeroTtl
  /\ deposits = {}
  /\ tips = <<>>
  /\ tx = [c \in Conns |-> IdleTx]
  /\ nextId = 4
  /\ nextDepId = 1
  /\ eff = [p \in XProcs |-> {}]
  /\ last = NoCall
  /\ rev \in revs
  /\ \E a1 \in args1, a2 \in args2, m1 \in amts1, m2 \in amts2 :
       xf = [p \in XProcs |-> IF p = "p1" THEN NewXf(a1, m1) ELSE NewXf(a2, m2)]
  /\ clock = 0
  /\ nfail = 0
  /\ ScanOff
  /\ BootOff

(***************************************************************************)
(* Specification of the transfer engine on one client per call             *)
(* (part_013 transfer, tips.ts tipLites)                                   *)
(***************************************************************************)
Init ==
  InitX({"part_013", "tips.ts"},
        {<<1, 2>>, <<1, 1>>}, (0 - 1)..MaxAmount,
        {<<1, 2>>, <<1, 3>>, <<2, 1>>}, Amounts)

Next ==
  \/ \E p \in XProcs : transfer_validate(p)
  \/ \E p \in XProcs : transfer_begin(p)
  \/ \E p \in XProcs : transfer_lock(p)
  \/ \E p \in XProcs : transfer_balance(p)
  \/ \E p \in XProcs : transfer_rollback1(p)
  \/ \E p \in XProcs : transfer_out(p)
  \/ \E p \in XProcs : transfer_in(p)
  \/ \E p \in XProcs : transfer_findOut(p)
  \/ \E p \in XProcs : transfer_findIn(p)
  \/ \E p \in XProcs : transfer_dec(p)
  \/ \E p \in XProcs : transfer_inc(p)
  \/ \E p \in XProcs : transfer_audit(p)
  \/ \E p \in XProcs : transfer_commit(p)
  \/ \E p \in XProcs : transfer_rollback(p)
  \/ \E p \in XProcs : transfer_fail(p)
  \/ Tick

Spec == Init /\ [][Next]_vars

(***************************************************************************)
(* Specification of ledger.ts transfer, whose statements go through        *)
(* query() to whichever pool connection is free; both calls are issued in  *)
(* the same millisecond                                                    *)
(***************************************************************************)
InitPool ==
  InitX({"ledger.ts"},
        {<<1, 2>>}, {0, MaxAmount},
        {<<1, 2>>, <<1, 3>>}, {MaxAmount})

NextPool ==
  \/ \E p \in XProcs : transfer_validate(p)
  \/ \E p \in XProcs : transfer_balance(p)
  \/ \E p \in XProcs : transfer_begin(p)
  \/ \E p \in XProcs : transfer_out(p)
  \/ \E p \in XProcs : transfer_in(p)
  \/ \E p \in XProcs : transfer_findOut(p)
  \/ \E p \in XProcs : transfer_findIn(p)
  \/ \E p \in XProcs : transfer_dec(p)
  \/ \E p \in XProcs : transfer_inc(p)
  \/ \E p \in XProcs : transfer_audit(p)
  \/ \E p \in XProcs : transfer_commit(p)
  \/ \E p \in XProcs : transfer_rollback(p)
  \/ \E p \in XProcs : transfer_fail(p)

SpecPool == InitPool /\ [][NextPool]_vars

(***************************************************************************)
(* Claims about the transfer engine                                        *)
(***************************************************************************)
\* the balance of user u before any of the two calls
InitialBalance(u) == balanceLitesOf(FundedLedger, ZeroTtl, u)

AllDone == \A p \in XProcs : xf[p].pc = "done"

\* the two calls spend from one sender, each within the sender's balance,
\* together above it
RacingSpends ==
  /\ xf["p1"].from = xf["p2"].from
  /\ \A p \in XProcs :
       /\ xf[p].from # xf[p].to
       /\ xf[p].amt > 0
       /\ xf[p].amt <= InitialBalance(xf[p].from)
  /\ xf["p1"].amt + xf["p2"].amt > InitialBalance(xf["p1"].from)

\* C2: two concurrent transfers from one sender, each amount within the
\* sender's balance and their sum above it, end (when no statement times out)
\* with exactly one committed and the other rejected with insufficient
\* balance, and the sender debited once.
C2_NoDoubleSpend ==
  (RacingSpends /\ AllDone /\ nfail = 0) =>
    \E p \in XProcs : \E q \in XProcs \ {p} :
      /\ xf[p].res = "ok"
      /\ xf[q].res = "Insufficient balance"
      /\ balanceLites(xf[p].from) = InitialBalance(xf[p].from) - xf[p].amt

\* C3: once the calls have returned, every user's full-aggregation balance
\* equals the hybrid balance.
C3_BalanceEquivalence ==
  (AllDone /\ \A c \in Conns : tx[c].st = "idle") =>
    \A u \in Users : getUserBalanceLites(u) = balanceLites(u)

\* the step in which call p returns successfully
Returns(p) == xf[p].res # "ok" /\ xf'[p].res = "ok"

\* the ledger rows a transfer of call p posts, whatever their ids
TipRowsOf(p, rows) ==
  {[user_id |-> r.user_id, delta_lites |-> r.delta_lites,
    reason |-> r.reason, ref |-> r.ref] : r \in rows}

\* C7: a successful transfer lowers the sender's balance by the amount, raises
\* the receiver's by the amount, leaves the other balances alone, and adds one
\* tip_out entry of -amount and one tip_in entry of +amount with one reference.
C7_TransferEffect ==
  [][\A p \in XProcs : Returns(p) =>
       /\ balanceLites(xf[p].from)' = balanceLites(xf[p].from) - xf[p].amt
       /\ balanceLites(xf[p].to)' = balanceLites(xf[p].to) + xf[p].amt
       /\ \A u \in Users \ {xf[p].from, xf[p].to} :
            balanceLites(u)' = balanceLites(u)
       /\ TipRowsOf(p, ledger' \ ledger) =
            {[user_id |-> xf[p].from, delta_lites |-> 0 - xf[p].amt,
              reason |-> "tip_out", ref |-> xf[p].ref],
             [user_id |-> xf[p].to, delta_lites |-> xf[p].amt,
              reason |-> "tip_in", ref |-> xf[p].ref]}]_vars

\* C8: in every committed state either all of a transfer's tip_out row, tip_in
\* row, sender decrement and receiver increment are there, or none of them.
C8_TransferAtomic ==
  \A p \in XProcs :
    eff[p] \cap {"out", "in", "dec", "inc"} \in {{}, {"out", "in", "dec", "inc"}}

\* the writes of call p that wait in an open transaction
PendingOf(p) == UNION {{e \in tx[c].effs : e[1] = p} : c \in Conns}

\* C10: a transfer whose amount exceeds the sender's balance, as read inside
\* the transfer, is rejected with an insufficient-balance error and writes
\* nothing: no ledger row, no accelerator change, no tip-audit row.
C10_InsufficientWritesNothing ==
  \A p \in XProcs :
    (xf[p].chk /\ xf[p].bal < xf[p].amt) =>
      /\ xf[p].res = "Insufficient balance"
      /\ xf[p].pc \in {"rollback1", "rollback", "done"}
      /\ xf[p].issued = {}
      /\ eff[p] = {}
      /\ PendingOf(p) = {}

\* a call within the sender's initial balance was rejected because the other
\* call had spent first, and has returned
C10_Witness ==
  \E p \in XProcs :
    /\ xf[p].chk /\ xf[p].bal < xf[p].amt
    /\ xf[p].amt <= InitialBalance(xf[p].from)
    /\ xf[p].pc = "done"
    /\ \E q \in XProcs \ {p} : xf[q].res = "ok"

\* the arguments of call p are refused by the argument checks
InvalidArgs(p) == xf[p].amt <= 0 \/ xf[p].from = xf[p].to

\* C11: a transfer call with amount <= 0 or with sender = receiver is rejected
\* before it touches the database: it never opens a transaction or issues a
\* statement, the step that rejects it leaves the ledger, the accelerator
\* fields and the tip-audit table as they are, and it returns the matching
\* error.
C11_InvalidRejected ==
  /\ [](\A p \in XProcs : InvalidArgs(p) =>
          /\ xf[p].pc \in {"start", "done"}
          /\ xf[p].pc = "done" =>
               xf[p].res = IF xf[p].amt <= 0 THEN "Amount must be positive"
                           ELSE "Cannot tip yourself"
          /\ xf[p].issued = {}
          /\ eff[p] = {}
          /\ PendingOf(p) = {}
          /\ tx[p] = IdleTx)
  /\ [][\A p \in XProcs : (InvalidArgs(p) /\ xf'[p] # xf[p]) =>
          UNCHANGED <<ledger, transferred_tip_lites, tips, deposits, tx,
                      nextId>>]_vars

\* a call with a negative amount was rejected while the other call went
\* through
C11_Witness ==
  \E p \in XProcs : \E q \in XProcs \ {p} :
    /\ xf[p].amt < 0
    /\ xf[p].pc = "done"
    /\ xf[p].res = "Amount must be positive"
    /\ xf[q].res = "ok"

(***************************************************************************)
(* Deposit reconciler: worker.ts scanOnceRpc, scanOnceExplorer (also        *)
(* scan_explorer.ts), the earlier scanOnce, and the deposits -> ledger      *)
(* statement of bootstrap.ts.  A scanner awaits its statements one by one,  *)
(* so its pool hands every one of them to the same client: BEGIN, the two   *)
(* inserts and COMMIT of a scanner run on one connection.                   *)
(***************************************************************************)
Max(a, b) == IF a > b THEN a ELSE b

RECURSIVE Flatten(_)
Flatten(ss) == IF ss = <<>> THEN <<>> ELSE Head(ss) \o Flatten(Tail(ss))

\* `${t.txid}:${t.vout}`
DepRef(txid, vout) == txid \o ":" \o ToString(vout)

\* the node's item for output o (user_id 0: the user is looked up later,
\* from the label); amounts are carried in lites
TxItemOf(o, tp) ==
  [category |-> "receive", label |-> LabelOf(chain.pays[o]),
   confirmations |-> tp - HeightOf[o.txid] + 1, txid |-> o.txid,
   vout |-> o.vout, amount |-> ValueOf(o), user_id |-> 0]

\* the node's item for the send leg of transaction t
SendItemOf(t, tp) ==
  [category |-> "send", label |-> "",
   confirmations |-> tp - HeightOf[t] + 1, txid |-> t,
   vout |-> 0, amount |-> 0 - 1, user_id |-> 0]

\* rpc("listtransactions", ["*", 1000, 0, true]) at tip tp
listtransactions(tp) ==
  LET sends == SelectSeq(<<"t1", "t2">>, LAMBDA t : chain.send[t])
  IN [i \in 1..Len(AllOuts) |-> TxItemOf(AllOuts[i], tp)]
     \o [i \in 1..Len(sends) |-> SendItemOf(sends[i], tp)]

\* rpc("gettransaction", [txid]).details
gettransaction(t) ==
  {[category |-> "receive"]}
    \cup (IF chain.send[t] THEN {[category |-> "send"]} ELSE {})

\* scanOnceRpc: receives with enough confirmations and a numeric label
IsReceiveAnyConf(t) ==
  /\ t.category = "receive"
  /\ t.label # ""
  /\ t.label \in DOMAIN NumberOf

IsReceive(t) ==
  /\ t.category = "receive"
  /\ t.confirmations >= MIN_CONF
  /\ t.label # ""
  /\ t.label \in DOMAIN NumberOf

\* scanOnce (earlier revision): receives with enough confirmations and a label
IsReceiveLegacy(t) ==
  /\ t.category = "receive"
  /\ t.confirmations >= MIN_CONF
  /\ t.label # ""

\* the explorer's record of transaction t
ExplorerTxOf(t) ==
  LET n == Cardinality({o \in Outs : o.txid = t})
  IN [txid |-> t,
      vout |-> [i \in 1..n |->
                 [scriptpubkey_address |-> chain.pays[[txid |-> t, vout |-> i - 1]],
                  value |-> ValueOf([txid |-> t, vout |-> i - 1])]],
      status |-> chain.status[t]]

\* GET /address/:address/txs
getAddressTxs(address) ==
  SelectSeq(<<ExplorerTxOf("t1"), ExplorerTxOf("t2")>>,
            LAMBDA x : \E i \in 1..Len(x.vout) :
                         x.vout[i].scriptpubkey_address = address)

\* conf = Math.max(0, tip - h + 1) for every transaction
ExplorerConfAll(x, tp) == Max(0, tp - x.status.block_height + 1)

\* if (!tx?.status?.confirmed) continue; const h = tx.status.block_height || 0;
\* conf = h ? Math.max(0, tip - h + 1) : 0
ExplorerConf(x, tp) ==
  IF ~x.status.confirmed THEN 0
  ELSE IF x.status.block_height # 0
       THEN Max(0, tp - x.status.block_height + 1) ELSE 0

\* scanOnceExplorer: the outputs of the address's transactions that pay it
ExplorerItems(user_id, address, tp) ==
  LET txs == SelectSeq(getAddressTxs(address),
                       LAMBDA x : ~(ExplorerConf(x, tp) < MIN_CONF))
      OfTx(x) ==
        LET idx == SelectSeq([i \in 1..Len(x.vout) |-> i],
                             LAMBDA i : x.vout[i].scriptpubkey_address = address)
        IN [k \in 1..Len(idx) |->
             [category |-> "receive", label |-> "",
              confirmations |-> ExplorerConf(x, tp), txid |-> x.txid,
              vout |-> idx[k] - 1, amount |-> x.vout[idx[k]].value,
              user_id |-> user_id]]
  IN Flatten([j \in 1..Len(txs) |-> OfTx(txs[j])])

\* the candidates of one cycle, by source
Candidates(mode, tp) ==
  IF mode = "rpc" THEN SelectSeq(listtransactions(tp), IsReceive)
  ELSE IF mode = "legacy" THEN SelectSeq(listtransactions(tp), IsReceiveLegacy)
  ELSE Flatten([j \in 1..2 |->
                 LET a == <<"A1", "A2">>[j]
                 IN ExplorerItems(wallet_addresses[a], a, tp)])

\* SELECT 1 FROM deposits WHERE txid = $1 AND vout = $2
DepositExists(c, txid, vout) ==
  \E d \in deposits \cup tx[c].deps : d.txid = txid /\ d.vout = vout

\* deposits UNIQUE(txid, vout): the insert has to wait for a transaction of
\* another connection that holds an uncommitted row with the same key
DepositKeyHeldElsewhere(c, txid, vout) ==
  \E d \in Conns \ {c} : \E r \in tx[d].deps : r.txid = txid /\ r.vout = vout

\* deposits UNIQUE(txid, vout): the insert fails on a row with the same key
DepositsUniqueNever(c, txid, vout) == FALSE

DepositsUnique(c, txid, vout) ==
  \E d \in deposits \cup tx[c].deps : d.txid = txid /\ d.vout = vout

\* the user a candidate is credited to: the explorer path takes user_id from
\* wallet_addresses, the node paths ensureUser({ id: Number(t.label) })
UserOf(mode, t) ==
  IF mode = "explorer" THEN t.user_id ELSE UserIdOfTg[NumberOf[t.label]]

\* how a poll at tip tp observes output o, a payment to a user's address
Observation(o, tp) ==
  IF chain.pays[o] \notin DOMAIN wallet_addresses THEN {}
  ELSE IF tp - HeightOf[o.txid] + 1 < MIN_CONF THEN {"below"}
  ELSE IF \E r \in ledger : r.reason = "deposit" /\ r.ref = DepRef(o.txid, o.vout)
       THEN {"replay"} ELSE {"at"}

\* a cycle starts: the source is polled (USE_EXPLORER is read at process
\* start; a restart between two cycles may have switched it)
scan_start(w, mode) ==
  /\ scan[w].pc = "idle"
  /\ nscan < MaxScans
  /\ nscan' = nscan + 1
  /\ scan' = [scan EXCEPT ![w] =
       [pc |-> "item", mode |-> mode, tip |-> tip,
        todo |-> Candidates(mode, tip), failed |-> FALSE, at |-> ""]]
  /\ obs' = [o \in Outs |-> obs[o] \cup Observation(o, tip)]
  /\ UNCHANGED <<bvars, dbvars, last, xvars, tip, chain>>

\* the head of the loop for one candidate: the change check (scanOnceRpc
\* only), the idempotency check, the label check (scanOnce only)
scan_item(w) ==
  /\ scan[w].pc = "item"
  /\ scan[w].todo # <<>>
  /\ LET t == Head(scan[w].todo)
         skip ==
           \/ /\ scan[w].mode = "rpc"
              /\ \E d \in gettransaction(t.txid) : d.category = "send"
           \/ DepositExists(w, t.txid, t.vout)
           \/ /\ scan[w].mode = "legacy"
              /\ t.label \notin DOMAIN NumberOf
     IN scan' = [scan EXCEPT ![w].todo = IF skip THEN Tail(@) ELSE @,
                             ![w].pc = IF skip THEN "item" ELSE "begin"]
  /\ UNCHANGED <<bvars, dbvars, last, xvars, tip, chain, obs, nscan>>

\* the loop is through: the cycle ends
scan_end(w) ==
  /\ scan[w].pc = "item"
  /\ scan[w].todo = <<>>
  /\ scan' = [scan EXCEPT ![w].pc = "idle"]
  /\ UNCHANGED <<bvars, dbvars, last, xvars, tip, chain, obs, nscan>>

\* the statements of the candidate without BEGIN: each one autocommits
scan_beginAutocommit(w) ==
  /\ scan[w].pc = "begin"
  /\ UNCHANGED dbvars
  /\ scan' = [scan EXCEPT ![w].pc = "insert"]
  /\ UNCHANGED <<bvars, last, xvars, tip, chain, obs, nscan>>

\* await query("BEGIN")
scan_begin(w) ==
  /\ scan[w].pc = "begin"
  /\ Begin(w)
  /\ scan' = [scan EXCEPT ![w].pc = "insert"]
  /\ UNCHANGED <<bvars, last, xvars, tip, chain, obs, nscan>>

\* INSERT INTO deposits (...) VALUES (..., credited = true)
scan_insert(w) ==
  /\ scan[w].pc = "insert"
  /\ LET t == Head(scan[w].todo)
     IN /\ ~DepositKeyHeldElsewhere(w, t.txid, t.vout)
        /\ IF DepositsUnique(w, t.txid, t.vout)
           THEN /\ Abort(w)
                /\ scan' = [scan EXCEPT ![w].pc = "rollback"]
           ELSE /\ Exec(w, [NoWrite EXCEPT !.deps =
                     {[id |-> nextDepId,
                       user_id |-> UserOf(scan[w].mode, t), txid |-> t.txid,
                       vout |-> t.vout, amount_lites |-> t.amount,
                       confirmations |-> t.confirmations, credited |-> TRUE]}])
                /\ scan' = [scan EXCEPT ![w].pc = "credit"]
  /\ UNCHANGED <<bvars, last, xvars, tip, chain, obs, nscan>>

\* await credit(user.id, amountLites, "deposit", `${t.txid}:${t.vout}`)
scan_credit(w) ==
  /\ scan[w].pc = "credit"
  /\ LET t == Head(scan[w].todo)
     IN /\ credit(w, UserOf(scan[w].mode, t), t.amount, "deposit",
                  DepRef(t.txid, t.vout))
        /\ scan' = [scan EXCEPT ![w].pc =
                      IF t.amount <= 0 THEN "rollback" ELSE "commit"]
  /\ UNCHANGED <<bvars, last, xvars, tip, chain, obs, nscan>>

\* await query("COMMIT")
scan_commit(w) ==
  /\ scan[w].pc = "commit"
  /\ Commit(w)
  /\ scan' = [scan EXCEPT ![w].pc = "item", ![w].todo = Tail(@)]
  /\ UNCHANGED <<bvars, last, xvars, tip, chain, obs, nscan>>

\* catch: await query("ROLLBACK")
scan_rollback(w) ==
  /\ scan[w].pc = "rollback"
  /\ Rollback(w)
  /\ scan' = [scan EXCEPT ![w].pc = "item", ![w].todo = Tail(@)]
  /\ UNCHANGED <<bvars, last, xvars, tip, chain, obs, nscan>>

\* the error of a cycle ending the worker instead of being caught by main
scan_failExit(w) ==
  /\ nfail < MaxFail
  /\ nfail' = nfail + 1
  /\ scan[w].pc \in {"insert", "credit", "commit", "begin", "item"}
  /\ scan' = [scan EXCEPT ![w].pc = "exited", ![w].todo = <<>>,
                          ![w].failed = TRUE, ![w].at = scan[w].pc]
  /\ Abort(w)
  /\ UNCHANGED <<bvars, last, rev, xf, clock, tip, chain, obs, nscan>>

\* a statement or a request of the cycle fails: inside the try block the
\* transaction is rolled back and the loop goes on; outside (the checks at
\* the head of the loop, BEGIN) the error leaves scanOnce and ends the cycle
scan_fail(w) ==
  /\ nfail < MaxFail
  /\ nfail' = nfail + 1
  /\ \/ /\ scan[w].pc \in {"insert", "credit", "commit"}
        /\ Abort(w)
        /\ scan' = [scan EXCEPT ![w].pc = "rollback", ![w].failed = TRUE,
                                ![w].at = scan[w].pc]
     \/ /\ scan[w].pc = "begin" \/ (scan[w].pc = "item" /\ scan[w].todo # <<>>)
        /\ scan' = [scan EXCEPT ![w].pc = "idle", ![w].todo = <<>>,
                                ![w].failed = TRUE, ![w].at = scan[w].pc]
        /\ UNCHANGED dbvars
  /\ UNCHANGED <<bvars, last, rev, xf, clock, tip, chain, obs, nscan>>

\* a block is mined
Mine ==
  /\ tip < InitTip + MaxBlocks
  /\ tip' = tip + 1
  /\ UNCHANGED <<bvars, dbvars, last, xvars, chain, scan, obs, nscan>>

\* the ledger rows of INSERT INTO ledger ... SELECT ... FROM deposits d
RECURSIVE SweepRows(_, _)
SweepRows(ds, id) ==
  IF ds = {} THEN {}
  ELSE LET d == CHOOSE x \in ds : TRUE
       IN {[id |-> id, user_id |-> d.user_id, delta_lites |-> d.amount_lites,
            reason |-> "deposit", ref |-> DepRef(d.txid, d.vout)]}
          \cup SweepRows(ds \ {d}, id + 1)

\* bootstrap.ts step 3, one statement on the bootstrap client: every deposits
\* row that is credited or has MIN_CONFS confirmations and has no ledger row
\* gets one
bootstrap_deposits ==
  LET cands ==
        {d \in deposits :
           /\ d.credited \/ d.confirmations >= MIN_CONFS
           /\ ~\E l \in ledger :
                 l.reason = "deposit" /\ l.ref = DepRef(d.txid, d.vout)}
  IN /\ \A d \in cands :
          ~KeyHeldElsewhere(BootConn, "deposit", DepRef(d.txid, d.vout))
     /\ Exec(BootConn, [NoWrite EXCEPT !.ledger = SweepRows(cands, nextId)])
     /\ UNCHANGED <<bvars, last, xvars, svars>>

\* a deposits row of a deployment that had no ledger yet, of a transaction
\* the sources no longer list: the case bootstrap.ts step 3 is there for
LegacyDeposit ==
  [id |-> 1, user_id |-> 2, txid |-> "t0", vout |-> 0, amount_lites |-> 1,
   confirmations |-> MIN_CONF, credited |-> TRUE]

(***************************************************************************)
(* Specification of the deposit reconciler: two scanners, each cycle on    *)
(* any of the three sources, the bootstrap statement, blocks being mined   *)
(***************************************************************************)
InitScan ==
  /\ ledger = {}
  /\ transferred_tip_lites = ZeroTtl
  /\ deposits \in {{}, {LegacyDeposit}}
  /\ tips = <<>>
  /\ tx = [c \in Conns |-> IdleTx]
  /\ nextId = 1
  /\ nextDepId = Cardinality(deposits) + 1
  /\ eff = [p \in XProcs |-> {}]
  /\ last = NoCall
  /\ rev = "ledger.ts"
  /\ xf = [p \in XProcs |-> NoXf]
  /\ clock = 0
  /\ nfail = 0
  /\ tip = InitTip
  /\ chain \in
       {[send |-> [t \in Txids |-> t = "t1" /\ s],
         pays |-> [o \in Outs |-> IF o.vout = 0 THEN "A1" ELSE a],
         status |-> Mined] :
          s \in BOOLEAN, a \in {"A2", "H"}}
  /\ scan = [w \in Workers |-> NoScan]
  /\ obs = [o \in Outs |-> {}]
  /\ nscan = 0
  /\ BootOff

NextScan ==
  \/ \E w \in Workers : \E mode \in ModesOf(w) : scan_start(w, mode)
  \/ \E w \in Workers : scan_item(w)
  \/ \E w \in Workers : scan_end(w)
  \/ \E w \in Workers : scan_begin(w)
  \/ \E w \in Workers : scan_insert(w)
  \/ \E w \in Workers : scan_credit(w)
  \/ \E w \in Workers : scan_commit(w)
  \/ \E w \in Workers : scan_rollback(w)
  \/ \E w \in Workers : scan_fail(w)
  \/ Mine
  \/ bootstrap_deposits

SpecScan == InitScan /\ [][NextScan]_vars

\* worker.ts main: while (true) { try { await scanOnce() } catch ...;
\* await sleep(POLL_MS) }: a worker between two cycles starts the next one
\* (as long as the run has cycles left)
\* (on one chain: no transaction spends wallet funds, every output pays a
\* deposit address; the run has two cycles left)
InitScanLive ==
  /\ ledger = {}
  /\ transferred_tip_lites = ZeroTtl
  /\ deposits = {LegacyDeposit}
  /\ tips = <<>>
  /\ tx = [c \in Conns |-> IdleTx]
  /\ nextId = 1
  /\ nextDepId = 2
  /\ eff = [p \in XProcs |-> {}]
  /\ last = NoCall
  /\ rev = "ledger.ts"
  /\ xf = [p \in XProcs |-> NoXf]
  /\ clock = 0
  /\ nfail = 0
  /\ tip = InitTip
  /\ chain = [send |-> [t \in Txids |-> FALSE],
              pays |-> [o \in Outs |-> IF o.vout = 0 THEN "A1" ELSE "A2"],
              status |-> Mined]
  /\ scan = [w \in Workers |-> NoScan]
  /\ obs = [o \in Outs |-> {}]
  /\ nscan = MaxScans - 2
  /\ BootOff

SpecScanLive ==
  /\ InitScanLive
  /\ [][NextScan]_vars
  /\ \A w \in Workers : WF_vars(\E mode \in ModesOf(w) : scan_start(w, mode))

(***************************************************************************)
(* Claims about the deposit reconciler                                     *)
(***************************************************************************)
\* the 'deposit' ledger entries and the Deposit rows of output o
CreditsOf(o) ==
  {r \in ledger : r.reason = "deposit" /\ r.ref = DepRef(o.txid, o.vout)}

DepositsOf(o) == {d \in deposits : d.txid = o.txid /\ d.vout = o.vout}

\* the rows the scanners have written, committed or not
ScanWritten == deposits \cup UNION {tx[w].deps : w \in Workers}

\* output o pays a user's deposit address and is not the wallet's own spend
IsDeposit(o) ==
  chain.pays[o] \in DOMAIN wallet_addresses /\ ~chain.send[o.txid]

\* nothing is recorded or credited for an output below the threshold
Gated ==
  /\ \A o \in Outs :
       (CreditsOf(o) # {} \/ DepositsOf(o) # {}) =>
         tip - HeightOf[o.txid] + 1 >= MIN_CONF
  /\ \A d \in ScanWritten \ {LegacyDeposit} : d.confirmations >= MIN_CONF

\* scanner w ends a cycle in which nothing has failed
CycleEnds(w) ==
  /\ scan[w].pc = "item" /\ scan'[w].pc = "idle"
  /\ ~scan[w].failed /\ ~scan'[w].failed

C5_OneCreditPerOutput ==
  /\ \A d1 \in deposits, d2 \in deposits :
       (d1.txid = d2.txid /\ d1.vout = d2.vout) => d1 = d2
  /\ \A r1 \in ledger, r2 \in ledger :
       (r1.reason = "deposit" /\ r2.reason = "deposit" /\ r1.ref = r2.ref)
         => r1 = r2

\* two scanners on different sources went for one output: one has committed
\* its Deposit row and credit, the other's insert has hit the constraint
C5_Witness ==
  /\ nfail = 0
  /\ scan["w1"].mode # scan["w2"].mode
  /\ \E w \in Workers :
       /\ scan[w].pc = "rollback"
       /\ LET t == Head(scan[w].todo)
          IN /\ \E d \in deposits : d.txid = t.txid /\ d.vout = t.vout
             /\ \E r \in ledger :
                  r.reason = "deposit" /\ r.ref = DepRef(t.txid, t.vout)

\* C6: a transaction with a send leg and a receive leg for the wallet never
\* gets a Deposit row or a 'deposit' ledger entry for its receive leg.
C6_ChangeExcluded ==
  \A o \in Outs :
    chain.send[o.txid] => (CreditsOf(o) = {} /\ DepositsOf(o) = {})

C20_FailureKeepsCycle ==
  [][\A w \in Workers :
       (/\ ~scan[w].failed /\ scan'[w].failed
        /\ scan[w].todo # <<>> /\ Tail(scan[w].todo) # <<>>)
         => /\ scan'[w].pc # "idle"
            /\ scan'[w].todo \in {scan[w].todo, Tail(scan[w].todo)}]_vars

\* the cycle of scanner w has thrown: main has caught the error
CycleThrew(w) == scan[w].failed /\ scan[w].at \in {"item", "begin"}

\* C21: an error in a cycle never ends the polling loop: after a cycle that
\* throws, the worker starts another cycle (or waits for one, when the
\* cycles of the run are used up)
C21_LoopSurvives ==
  \A w \in Workers :
    CycleThrew(w) ~>
      (scan[w].pc = "item" \/ (scan[w].pc = "idle" /\ nscan = MaxScans))

\* a cycle has thrown at the head of its loop, with candidates left, and the
\* run has cycles left
C21_Witness ==
  \E w \in Workers : CycleThrew(w) /\ scan[w].at = "item" /\ nscan < MaxScans

(***************************************************************************)
(* Withdrawals: the /withdraw command, the rebuild script                  *)
(***************************************************************************)
\* withdrawals.txid IS NULL
NullTxid == ""
\* the addresses /withdraw is called with: "A2" is the deposit address of
\* user 2, "X" an address outside the wallet
ToAddresses == {"A2", "X"}
\* the transaction id sendtoaddress returns to the command
TxidOf(h) == IF h = "h1" THEN "x1" ELSE "x2"

\* the row INSERT INTO public.withdrawals ... ON CONFLICT (txid) DO NOTHING
\* adds
WithdrawalRows(userId, to, amt, txid) ==
  IF \E w \in withdrawals : w.txid = txid THEN {}
  ELSE {[id |-> Cardinality(withdrawals) + 1, user_id |-> userId,
         to_address |-> to, amount_lites |-> amt, txid |-> txid,
         status |-> "sent"]}

\* const bal = await getBalanceCached(sender.id); if (bal < amount) return
\* (the cache is filled from getBalanceLites)
wd_check(h) ==
  /\ wd[h].pc = "start"
  /\ wd' = [wd EXCEPT ![h] =
              IF balanceLites(wd[h].user) < wd[h].amt
              THEN [@ EXCEPT !.pc = "done", !.res = "Insufficient balance"]
              ELSE [@ EXCEPT !.pc = "send"]]
  /\ UNCHANGED <<dbvars, last, xvars, svars, pvars, withdrawals, sent, boot, advlock>>

\* sendtoaddress succeeds: txid = send.value
wd_send_ok(h) ==
  /\ wd[h].pc = "send"
  /\ sent' = sent \cup {[txid |-> TxidOf(h), address |-> wd[h].to,
                         amount |-> wd[h].amt]}
  /\ wd' = [wd EXCEPT ![h].pc = "insert", ![h].txid = TxidOf(h)]
  /\ UNCHANGED <<dbvars, last, xvars, svars, pvars, withdrawals, boot, advlock>>

\* the handler going on as if the send had succeeded
wd_send_failRecorded(h) ==
  /\ wd[h].pc = "send"
  /\ wd' = [wd EXCEPT ![h].pc = "insert", ![h].txid = TxidOf(h),
                      ![h].res = "failed"]
  /\ UNCHANGED <<dbvars, last, xvars, svars, pvars, withdrawals, sent, boot, advlock>>

\* if (!send.ok) return dmLater(...)
wd_send_fail(h) ==
  /\ wd[h].pc = "send"
  /\ wd' = [wd EXCEPT ![h].pc = "done", ![h].res = "failed"]
  /\ UNCHANGED <<dbvars, last, xvars, svars, pvars, withdrawals, sent, boot, advlock>>

\* INSERT INTO public.withdrawals (...) VALUES ($1,$2,$3,$4,'sent', NOW())
\* ON CONFLICT (txid) DO NOTHING, autocommitted
wd_insert(h) ==
  /\ wd[h].pc = "insert"
  /\ withdrawals' = withdrawals
       \cup WithdrawalRows(wd[h].user, wd[h].to, wd[h].amt, wd[h].txid)
  /\ wd' = [wd EXCEPT ![h].pc = "debit"]
  /\ UNCHANGED <<dbvars, last, xvars, svars, pvars, sent, boot, advlock>>

\* await debit(sender.id, amount, "withdrawal", txid), then the DM
\* "Withdrawal sent."
wd_debit(h) ==
  /\ wd[h].pc = "debit"
  /\ \E c \in PoolConn :
       debit(c, wd[h].user, wd[h].amt, "withdrawal", wd[h].txid)
  /\ wd' = [wd EXCEPT ![h].pc = "done",
                      ![h].res = IF @ = "" THEN "sent" ELSE @]
  /\ UNCHANGED <<last, xvars, svars, pvars, withdrawals, sent, boot, advlock>>

\* the statement of the command throws: both try blocks catch, log and go on
wd_fail(h) ==
  /\ nfail < MaxFail
  /\ wd[h].pc \in {"insert", "debit"}
  /\ nfail' = nfail + 1
  /\ wd' = [wd EXCEPT ![h] =
              IF wd[h].pc = "insert" THEN [@ EXCEPT !.pc = "debit"]
              ELSE [@ EXCEPT !.pc = "done",
                             !.res = IF @ = "" THEN "sent" ELSE @]]
  /\ UNCHANGED <<dbvars, last, rev, xf, clock, svars, pvars, withdrawals, sent, boot,
               advlock>>

\* rebuild_withdrawals.ts, extractTgIdMaybe(t): the label of the address
\* paid, when it is numeric; 0 for null (the command sends without comment)
extractTgIdMaybe(t) ==
  IF t.address \in DOMAIN wallet_addresses
  THEN NumberOf[LabelOf(t.address)] ELSE 0

\* `wd:${t.txid}:${vout}`, vout = t.vout ?? 0
WdRef(txid) == "wd:" \o txid \o ":0"

\* rebuild_withdrawals.ts, one "send" item of listtransactions with MIN_CONF
\* confirmations, on a database whose withdrawals table has the columns the
\* script names: BEGIN, INSERT INTO withdrawals ... ON CONFLICT (txid, vout)
\* DO NOTHING, INSERT INTO ledger ... ON CONFLICT (ref) DO NOTHING, COMMIT.
\* A row with the same txid and another vout violates withdrawals_txid_unique:
\* the catch rolls back.
rebuild_withdrawals ==
  \E t \in sent :
    /\ extractTgIdMaybe(t) # 0
    /\ ~\E w \in withdrawals : w.txid = t.txid
    /\ withdrawals' = withdrawals
         \cup {[id |-> Cardinality(withdrawals) + 1,
                user_id |-> UserIdOfTg[extractTgIdMaybe(t)],
                to_address |-> "", amount_lites |-> t.amount,
                txid |-> t.txid, status |-> ""]}
    /\ \E c \in PoolConn :
         Exec(c, [NoWrite EXCEPT !.ledger =
                    IF \E l \in ledger : l.ref = WdRef(t.txid) THEN {}
                    ELSE {[id |-> nextId,
                           user_id |-> UserIdOfTg[extractTgIdMaybe(t)],
                           delta_lites |-> 0 - t.amount,
                           reason |-> "withdraw", ref |-> WdRef(t.txid)]}])
    /\ UNCHANGED <<last, xvars, svars, pvars, sent, wd, boot, advlock>>

(***************************************************************************)
(* The bootstrap sweep                                                     *)
(***************************************************************************)
\* pg_try_advisory_lock(922337203)
pg_try_advisory_lock(b) == advlock \in {"none", b}

\* the lock after pg_advisory_unlock by b, and after b's session has ended
KeptLock(b) == advlock

ReleasedLock(b) == IF advlock = b THEN "none" ELSE advlock

\* SHOW transaction_read_only is never taken to say "on"
isRONever(b) == FALSE

\* (ro.rows?.[0]?.transaction_read_only ?? "off") === "on"
isRO(b) == boot[b].ro

\* the steps inside try { ... } of bootstrap.ts; in part_008 the statements
\* between connect and c.end()
SweepPcs == {"check", "update", "ddl", "deposits", "withdrawals", "pairing"}
\* the steps that issue a write statement
WritePcs == SweepPcs \ {"check"}

\* the instance is started: new Client, c.connect(), the SET statements; the
\* session is read-only when the server is a standby
boot_connect(b) ==
  /\ boot[b].pc \in {"idle", "done"}
  /\ boot[b].run < MaxRuns
  /\ \E ro \in BOOLEAN :
       boot' = [boot EXCEPT ![b] =
                  [pc |-> IF boot[b].rev = "bootstrap.ts" THEN "lock" ELSE "ddl",
                   rev |-> boot[b].rev, ro |-> ro, wrote |-> 0,
                   run |-> boot[b].run + 1, complete |-> FALSE,
                   exit |-> ""]]
  /\ UNCHANGED <<dbvars, last, xvars, svars, pvars, withdrawals, sent, wd, advlock>>

\* bootstrap.ts 31-39: if (!locked) { await c.end(); return; }
boot_lock(b) ==
  /\ boot[b].pc = "lock"
  /\ IF pg_try_advisory_lock(b)
     THEN /\ advlock' = b
          /\ boot' = [boot EXCEPT ![b].pc = "check"]
     ELSE /\ advlock' = advlock
          /\ boot' = [boot EXCEPT ![b].pc = "done", ![b].exit = "nolock"]
  /\ UNCHANGED <<dbvars, last, xvars, svars, pvars, withdrawals, sent, wd>>

\* bootstrap.ts 41-47: if (isRO) return  (the finally block runs next)
boot_check(b) ==
  /\ boot[b].pc = "check"
  /\ boot' = [boot EXCEPT ![b].pc = IF isRO(b) THEN "unlock" ELSE "update",
                          ![b].exit = IF isRO(b) THEN "readonly" ELSE ""]
  /\ UNCHANGED <<dbvars, last, xvars, svars, pvars, withdrawals, sent, wd, advlock>>

\* a write statement on a read-only session fails with code 25006:
\* bootstrap.ts catches it, part_008 exits
ReadOnlyError(b) ==
  boot' = [boot EXCEPT ![b].pc = IF boot[b].rev = "bootstrap.ts"
                                 THEN "unlock" ELSE "done",
                       ![b].wrote = @ + 1, ![b].exit = "error"]

\* UPDATE public.users SET transferred_tip_lites = 0 WHERE
\* transferred_tip_lites IS NULL  (no row of the model holds NULL)
boot_update(b) ==
  /\ boot[b].pc = "update"
  /\ IF boot[b].ro THEN ReadOnlyError(b)
     ELSE boot' = [boot EXCEPT ![b].pc = "ddl", ![b].wrote = @ + 1]
  /\ UNCHANGED <<dbvars, last, xvars, svars, pvars, withdrawals, sent, wd, advlock>>

\* the constraints and the trigger: DDL that is in place already
boot_ddl(b) ==
  /\ boot[b].pc = "ddl"
  /\ IF boot[b].ro THEN ReadOnlyError(b)
     ELSE boot' = [boot EXCEPT ![b].pc = "deposits", ![b].wrote = @ + 1]
  /\ UNCHANGED <<dbvars, last, xvars, svars, pvars, withdrawals, sent, wd, advlock>>

\* the statement without its NOT EXISTS clause
DepositsToPostAll ==
  {d \in deposits : d.credited \/ d.confirmations >= MIN_CONFS}

\* the deposits rows INSERT INTO ledger ... SELECT ... FROM deposits d WHERE
\* (d.credited = true OR d.confirmations >= $1) AND NOT EXISTS (...) selects
DepositsToPost ==
  {d \in deposits :
     /\ d.credited \/ d.confirmations >= MIN_CONFS
     /\ ~\E l \in ledger :
           l.reason = "deposit" /\ l.ref = DepRef(d.txid, d.vout)}

\* deposits -> ledger
boot_deposits(b) ==
  /\ boot[b].pc = "deposits"
  /\ IF boot[b].ro THEN ReadOnlyError(b) /\ UNCHANGED dbvars
     ELSE /\ Exec(b, [NoWrite EXCEPT
                       !.ledger = SweepRows(DepositsToPost, nextId)])
          /\ boot' = [boot EXCEPT ![b].pc = "withdrawals", ![b].wrote = @ + 1]
  /\ UNCHANGED <<last, xvars, svars, pvars, withdrawals, sent, wd, advlock>>

\* the statement selecting no row
WithdrawalsToPostNone == {}

\* the withdrawals rows INSERT INTO ledger ... SELECT ... FROM withdrawals w
\* WHERE w.txid IS NOT NULL AND NOT EXISTS (...) selects
WithdrawalsToPost ==
  {w \in withdrawals :
     /\ w.txid # NullTxid
     /\ ~\E l \in ledger : l.reason = "withdrawal" /\ l.ref = w.txid}

\* SELECT w.user_id, -w.amount_lites, 'withdrawal', w.txid
RECURSIVE WithdrawalSweepRows(_, _)
WithdrawalSweepRows(ws, id) ==
  IF ws = {} THEN {}
  ELSE LET w == CHOOSE x \in ws : TRUE
       IN {[id |-> id, user_id |-> w.user_id,
            delta_lites |-> 0 - w.amount_lites,
            reason |-> "withdrawal", ref |-> w.txid]}
          \cup WithdrawalSweepRows(ws \ {w}, id + 1)

\* withdrawals -> ledger
boot_withdrawals(b) ==
  /\ boot[b].pc = "withdrawals"
  /\ IF boot[b].ro THEN ReadOnlyError(b) /\ UNCHANGED dbvars
     ELSE /\ Exec(b, [NoWrite EXCEPT
                       !.ledger = WithdrawalSweepRows(WithdrawalsToPost, nextId)])
          /\ boot' = [boot EXCEPT ![b].pc = "pairing", ![b].wrote = @ + 1]
  /\ UNCHANGED <<last, xvars, svars, pvars, withdrawals, sent, wd, advlock>>

Abs(n) == IF n < 0 THEN 0 - n ELSE n

\* the minute of the run: new Date() / now() of every row the run writes
RunMinute == 4

\* ledger.created_at of the row with this id, in minutes
CreatedAt(id) ==
  IF id \in DOMAIN created_at THEN created_at[id] ELSE RunMinute

\* the join without its WHERE NOT EXISTS (SELECT 1 FROM public.tips ...)
PairsToPostAgain ==
  {oi \in {l \in ledger : l.reason \in {"tip_out", "rain_out", "airdrop_out"}}
          \X {l \in ledger : l.reason \in {"tip_in", "rain_in", "airdrop_in"}} :
     /\ Abs(oi[1].delta_lites) = Abs(oi[2].delta_lites)
     /\ oi[1].user_id # oi[2].user_id
     /\ Abs(CreatedAt(oi[2].id) - CreatedAt(oi[1].id)) <= 10}

\* the pairs the sweep selects: an out row and an in row of other users with
\* the same absolute amount, created within 600 seconds of each other,
\* neither in a tips row yet
PairsToPost ==
  {oi \in {l \in ledger : l.reason \in {"tip_out", "rain_out", "airdrop_out"}}
          \X {l \in ledger : l.reason \in {"tip_in", "rain_in", "airdrop_in"}} :
     /\ Abs(oi[1].delta_lites) = Abs(oi[2].delta_lites)
     /\ oi[1].user_id # oi[2].user_id
     /\ Abs(CreatedAt(oi[2].id) - CreatedAt(oi[1].id)) <= 10
     /\ ~\E k \in 1..Len(tips) :
           \/ tips[k].ledger_out_id = oi[1].id
           \/ tips[k].ledger_in_id = oi[2].id}

\* SELECT o.user_id, i.user_id, ABS(o.delta_lites), ..., o.id, i.id
RECURSIVE PairRows(_)
PairRows(ps) ==
  IF ps = {} THEN <<>>
  ELSE LET oi == CHOOSE x \in ps : TRUE
       IN <<[from_user_id |-> oi[1].user_id, to_user_id |-> oi[2].user_id,
             amount_lites |-> Abs(oi[1].delta_lites),
             ledger_out_id |-> oi[1].id, ledger_in_id |-> oi[2].id]>>
          \o PairRows(ps \ {oi})

\* the pairing sweep followed by a pruning of the tip rows it has paired
boot_pairingPrune(b) ==
  /\ boot[b].pc = "pairing"
  /\ IF boot[b].ro THEN ReadOnlyError(b) /\ UNCHANGED dbvars
     ELSE /\ tips' = tips \o PairRows(PairsToPost)
          /\ ledger' = ledger \ ({oi[1] : oi \in PairsToPost}
                                    \cup {oi[2] : oi \in PairsToPost})
          /\ UNCHANGED <<transferred_tip_lites, deposits, tx, nextId,
                         nextDepId, eff>>
          /\ boot' = [boot EXCEPT
                        ![b].pc = IF boot[b].rev = "bootstrap.ts"
                                  THEN "unlock" ELSE "end",
                        ![b].wrote = @ + 1, ![b].complete = TRUE,
                        ![b].exit = "complete"]
  /\ UNCHANGED <<last, xvars, svars, pvars, withdrawals, sent, wd, advlock>>

\* the pairing sweep, then "[bootstrap] complete"
boot_pairing(b) ==
  /\ boot[b].pc = "pairing"
  /\ IF boot[b].ro THEN ReadOnlyError(b) /\ UNCHANGED dbvars
     ELSE /\ Exec(b, [NoWrite EXCEPT !.tips = PairRows(PairsToPost)])
          /\ boot' = [boot EXCEPT
                        ![b].pc = IF boot[b].rev = "bootstrap.ts"
                                  THEN "unlock" ELSE "end",
                        ![b].wrote = @ + 1, ![b].complete = TRUE,
                        ![b].exit = "complete"]
  /\ UNCHANGED <<last, xvars, svars, pvars, withdrawals, sent, wd, advlock>>

\* finally { try { await c.query(`SELECT pg_advisory_unlock(922337203)`) }
\* catch {} ...
boot_unlock(b) ==
  /\ boot[b].pc = "unlock"
  /\ advlock' = ReleasedLock(b)
  /\ boot' = [boot EXCEPT ![b].pc = "end"]
  /\ UNCHANGED <<dbvars, last, xvars, svars, pvars, withdrawals, sent, wd>>

\* await c.end(): the server drops the locks of a session that ends
boot_end(b) ==
  /\ boot[b].pc = "end"
  /\ advlock' = ReleasedLock(b)
  /\ boot' = [boot EXCEPT ![b].pc = "done"]
  /\ UNCHANGED <<dbvars, last, xvars, svars, pvars, withdrawals, sent, wd>>

\* a statement of the instance throws: bootstrap.ts catches inside try and
\* goes to finally, a failed unlock is caught too; the lock query is outside
\* try and part_008 has no try: main().catch, process.exit(1)
boot_fail(b) ==
  /\ nfail < MaxFail
  /\ boot[b].pc \in SweepPcs \cup {"lock", "unlock"}
  /\ nfail' = nfail + 1
  /\ IF boot[b].rev = "bootstrap.ts" /\ boot[b].pc \in SweepPcs
     THEN /\ boot' = [boot EXCEPT ![b].pc = "unlock", ![b].exit = "error"]
          /\ advlock' = advlock
     ELSE IF boot[b].pc = "unlock"
     THEN /\ boot' = [boot EXCEPT ![b].pc = "end"]
          /\ advlock' = advlock
     ELSE /\ boot' = [boot EXCEPT ![b].pc = "done", ![b].exit = "error"]
          /\ advlock' = ReleasedLock(b)
  /\ UNCHANGED <<dbvars, last, rev, xf, clock, svars, pvars, withdrawals, sent, wd>>

\* the instance is stopped between two statements: its session ends
boot_kill(b) ==
  /\ boot[b].pc \notin {"idle", "done"}
  /\ boot' = [boot EXCEPT ![b].pc = "done", ![b].exit = "killed"]
  /\ advlock' = ReleasedLock(b)
  /\ UNCHANGED <<dbvars, last, xvars, svars, pvars, withdrawals, sent, wd>>

\* rows of a deployment that had no ledger yet
PendingDeposit ==
  [id |-> 2, user_id |-> 1, txid |-> "t9", vout |-> 0, amount_lites |-> 2,
   confirmations |-> MIN_CONF - 1, credited |-> FALSE]

ConfirmedDeposit ==
  [id |-> 3, user_id |-> 1, txid |-> "t8", vout |-> 1, amount_lites |-> 2,
   confirmations |-> MIN_CONF, credited |-> FALSE]

\* "tc" has its ledger row in FundedLedger, "td" has none, the third row has
\* no txid
LegacyWithdrawals ==
  {[id |-> 1, user_id |-> 2, to_address |-> "X", amount_lites |-> 1,
    txid |-> "tc", status |-> "sent"],
   [id |-> 2, user_id |-> 1, to_address |-> "X", amount_lites |-> 1,
    txid |-> "td", status |-> "sent"],
   [id |-> 3, user_id |-> 1, to_address |-> "X", amount_lites |-> 1,
    txid |-> NullTxid, status |-> "pending"]}

\* a tip of 1 from user 1 to user 2 that has no tips row
LegacyTip ==
  {[id |-> 4, user_id |-> 1, delta_lites |-> 0 - 1, reason |-> "tip_out",
    ref |-> "tip:1"],
   [id |-> 5, user_id |-> 2, delta_lites |-> 1, reason |-> "tip_in",
    ref |-> "tip:1"]}

NewWd(user, to, amt) ==
  [pc |-> "start", user |-> user, to |-> to, amt |-> amt, txid |-> "",
   res |-> ""]

(***************************************************************************)
(* Specification of the start of a deployment: two bootstrap instances,    *)
(* two /withdraw commands (user 2 asks for more than they hold), the       *)
(* rebuild script                                                          *)
(***************************************************************************)
InitBoot ==
  /\ ledger = FundedLedger \cup LegacyTip
  /\ transferred_tip_lites = ZeroTtl
  /\ deposits = {LegacyDeposit, PendingDeposit, ConfirmedDeposit}
  /\ tips = <<>>
  /\ tx = [c \in Conns |-> IdleTx]
  /\ nextId = 6
  /\ nextDepId = 4
  /\ eff = [p \in XProcs |-> {}]
  /\ last = NoCall
  /\ rev = "ledger.ts"
  /\ xf = [p \in XProcs |-> NoXf]
  /\ clock = 0
  /\ nfail = 0
  /\ ScanOff
  /\ withdrawals = LegacyWithdrawals
  /\ sent = {}
  /\ \E a \in ToAddresses, m \in Amounts :
       wd = [h \in WdProcs |-> IF h = "h1" THEN NewWd(1, a, m)
                                ELSE NewWd(2, "X", MaxAmount + 2)]
  /\ \E r \in BootRevs : boot = [b \in Boots |-> [NoBoot EXCEPT !.rev = r]]
  /\ advlock = "none"
  /\ created_at = NoLegacy
  /\ pair = NoPair
  /\ gate = NoGate
  /\ UsersOff
  /\ QOff

NextBoot ==
  \/ \E h \in WdProcs : wd_check(h)
  \/ \E h \in WdProcs : wd_send_ok(h)
  \/ \E h \in WdProcs : wd_send_fail(h)
  \/ \E h \in WdProcs : wd_insert(h)
  \/ \E h \in WdProcs : wd_debit(h)
  \/ \E h \in WdProcs : wd_fail(h)
  \/ rebuild_withdrawals
  \/ \E b \in Boots : boot_connect(b)
  \/ \E b \in Boots : boot_lock(b)
  \/ \E b \in Boots : boot_check(b)
  \/ \E b \in Boots : boot_update(b)
  \/ \E b \in Boots : boot_ddl(b)
  \/ \E b \in Boots : boot_deposits(b)
  \/ \E b \in Boots : boot_withdrawals(b)
  \/ \E b \in Boots : boot_pairing(b)
  \/ \E b \in Boots : boot_unlock(b)
  \/ \E b \in Boots : boot_end(b)
  \/ \E b \in Boots : boot_fail(b)
  \/ \E b \in Boots : boot_kill(b)

SpecBoot == InitBoot /\ [][NextBoot]_vars

(***************************************************************************)
(* Claims on withdrawals                                                   *)
(***************************************************************************)
\* the debit entries of the ledger for the chain transaction txid
DebitEntriesFor(txid) ==
  {l \in ledger : l.delta_lites < 0 /\ l.ref \in {txid, WdRef(txid)}}

\* the command has sent its payment and has returned
Recorded(h) == wd[h].pc = "done" /\ wd[h].txid # NullTxid

\* C12: after a successful send with transaction id T for amount a the
\* ledger holds exactly one debit entry for T, of -a, once the recorder has
\* returned, and never more than one whatever the recorder, the bootstrap
\* sweep and the rebuild script do
C12_ExactlyOnceDebit ==
  \A h \in WdProcs :
    /\ Cardinality(DebitEntriesFor(TxidOf(h))) <= 1
    /\ Recorded(h) =>
         \E l \in DebitEntriesFor(TxidOf(h)) : l.delta_lites = 0 - wd[h].amt

\* C13: when sendtoaddress fails, the command writes no Withdrawal row and no
\* ledger entry and leaves the balance of its user as it was: the failing
\* step and every state after it show nothing written for the command
C13_FailedSendWritesNothing ==
  /\ [](\A h \in WdProcs : wd[h].res = "failed" =>
          /\ wd[h].pc = "done"
          /\ wd[h].txid = NullTxid
          /\ ~\E w \in withdrawals : w.txid = TxidOf(h)
          /\ DebitEntriesFor(TxidOf(h)) = {}
          /\ ~\E t \in sent : t.txid = TxidOf(h))
  /\ [][\A h \in WdProcs :
          (wd[h].pc = "send" /\ wd'[h].res = "failed") =>
            /\ UNCHANGED <<ledger, transferred_tip_lites, withdrawals, tx>>
            /\ balanceLites(wd[h].user)' = balanceLites(wd[h].user)]_vars

\* a send has failed while a bootstrap sweep has posted its rows
C13_Witness ==
  /\ wd["h1"].res = "failed" /\ wd["h1"].pc = "done"
  /\ \E b \in Boots : boot[b].complete

(***************************************************************************)
(* Claims on the bootstrap sweep                                           *)
(***************************************************************************)
\* C15: at any time at most one bootstrap instance is executing sweep
\* writes, and an instance executes them only while it holds the advisory
\* lock: one that has not acquired it writes nothing
C15_BootstrapMutex ==
  /\ \A b \in Boots : boot[b].pc \in WritePcs => advlock = b
  /\ \A b \in Boots : boot[b].wrote > 0 => (advlock = b \/ boot[b].pc \in {"end", "done"})
  /\ Cardinality({b \in Boots : boot[b].pc \in WritePcs}) <= 1


\* a ledger row without its id
ContentOf(rows) ==
  {[user_id |-> l.user_id, delta_lites |-> l.delta_lites,
    reason |-> l.reason, ref |-> l.ref] : l \in rows}

\* the ledger one complete sweep leaves, started on the tables of InitBoot
OneRun ==
  ContentOf(FundedLedger \cup LegacyTip)
  \cup {[user_id |-> d.user_id, delta_lites |-> d.amount_lites,
         reason |-> "deposit", ref |-> DepRef(d.txid, d.vout)] :
          d \in {x \in {LegacyDeposit, PendingDeposit, ConfirmedDeposit} :
                   x.credited \/ x.confirmations >= MIN_CONFS}}
  \cup {[user_id |-> w.user_id, delta_lites |-> 0 - w.amount_lites,
         reason |-> "withdrawal", ref |-> w.txid] :
          w \in {x \in LegacyWithdrawals : x.txid # NullTxid}}

\* the ledger without the entries for the payments of the /withdraw commands
\* that run beside the sweep
SweptLedger ==
  {l \in ledger :
     \A h \in WdProcs : l.ref \notin {TxidOf(h), WdRef(TxidOf(h))}}

\* C16: the sweep run twice, or stopped after any of its steps and run again,
\* leaves the ledger one complete run leaves, and no (reason, reference) is
\* in the ledger twice
C16_SweepIdempotent ==
  /\ LedgerKeyUnique
  /\ ContentOf(SweptLedger) \subseteq OneRun
  /\ Cardinality(SweptLedger) = Cardinality(ContentOf(SweptLedger))
  /\ (\E b \in Boots : boot[b].complete) => ContentOf(SweptLedger) = OneRun

\* one instance was stopped after its deposits step, the other has run the
\* whole sweep after it
C16_Witness ==
  \E b \in Boots, d \in Boots :
    /\ b # d
    /\ boot[b].pc = "done" /\ ~boot[b].complete /\ boot[b].wrote >= 3
    /\ boot[d].pc = "done" /\ boot[d].complete
    /\ boot[b].rev = "bootstrap.ts"


\* the Deposit rows of ds that the sweep has to post have their credit in ls
DepositsHealed(ds, ls) ==
  \A d \in ds :
    (d.credited \/ d.confirmations >= MIN_CONFS) =>
      \E l \in ls : /\ l.reason = "deposit"
                    /\ l.ref = DepRef(d.txid, d.vout)
                    /\ l.delta_lites = d.amount_lites

\* the Withdrawal rows of ws with a txid have their debit in ls
WithdrawalsHealed(ws, ls) ==
  \A w \in ws :
    w.txid # NullTxid =>
      \E l \in ls : /\ l.reason = "withdrawal"
                    /\ l.ref = w.txid
                    /\ l.delta_lites = 0 - w.amount_lites

\* C17: a sweep that completes on a writable session has healed the tables:
\* when its deposits step returns every Deposit row that is credited or has
\* MIN_CONFIRMATIONS has its ledger entry of +amount, when its withdrawals
\* step returns every Withdrawal row with a txid has its entry of -amount,
\* and when it has completed this holds for every row that was there when it
\* started
C17_SweepHeals ==
  /\ [][\A b \in Boots :
          (boot[b].pc = "deposits" /\ boot'[b].pc = "withdrawals") =>
            DepositsHealed(deposits', ledger')]_vars
  /\ [][\A b \in Boots :
          (boot[b].pc = "withdrawals" /\ boot'[b].pc = "pairing") =>
            WithdrawalsHealed(withdrawals', ledger')]_vars
  /\ [](\A b \in Boots :
          boot[b].complete =>
            /\ ~boot[b].ro
            /\ DepositsHealed(deposits, ledger)
            /\ WithdrawalsHealed(LegacyWithdrawals, ledger))

\* a sweep has completed and has posted the debit of a payment whose command
\* has not reached its own debit yet
C17_Witness ==
  /\ \E b \in Boots : boot[b].complete
  /\ wd["h1"].pc = "debit"
  /\ \E w \in withdrawals : w.txid = TxidOf("h1")
  /\ WithdrawalsHealed(withdrawals, ledger)
  /\ DepositsHealed(deposits, ledger)


\* C18: an instance that has acquired the advisory lock releases it on every
\* path on which it leaves (completion, read-only skip, an error in any
\* step): the lock is held by a running instance only, so an instance started
\* when no other is running acquires it
C18_LockReleased ==
  /\ [](\A b \in Boots :
          /\ boot[b].pc \in {"idle", "lock", "done"} => advlock # b
          /\ (boot[b].rev = "bootstrap.ts" /\ boot[b].pc \in SweepPcs)
               => advlock = b)
  /\ []((\A b \in Boots : boot[b].pc \in {"idle", "lock", "done"})
          => advlock = "none")
  /\ [][\A b \in Boots :
          (/\ boot[b].pc = "lock" /\ boot'[b].pc # "lock"
           /\ \A d \in Boots \ {b} : boot[d].pc \in {"idle", "lock", "done"})
            => (advlock' = b \/ boot'[b].exit \in {"error", "killed"})]_vars

\* one instance has left on the error path after a write, the other was
\* started and holds the lock
C18_Witness ==
  \E b \in Boots, d \in Boots :
    /\ b # d
    /\ boot[b].pc = "done" /\ boot[b].exit = "error" /\ boot[b].wrote >= 1
    /\ boot[b].rev = "bootstrap.ts"
    /\ advlock = d /\ boot[d].pc \in SweepPcs


\* C19: on a session that reports transaction_read_only = on the sweep
\* performs no write: bootstrap.ts issues no write statement at all (no user
\* update, no DDL, no ledger insert, no tips insert), and no step of a
\* read-only instance changes a table
C19_ReadOnlyNoWrite ==
  /\ [](\A b \in Boots :
          (boot[b].rev = "bootstrap.ts" /\ boot[b].ro) =>
            boot[b].wrote = 0 /\ boot[b].pc \notin WritePcs)
  /\ [][\A b \in Boots :
          (boot[b].ro /\ boot[b].pc \notin {"idle", "done"}
           /\ boot'[b] # boot[b]) =>
            UNCHANGED <<ledger, transferred_tip_lites, deposits, tips,
                        withdrawals>>]_vars

\* an instance has left on the read-only path while rows were waiting to be
\* posted
C19_Witness ==
  \E b \in Boots :
    /\ boot[b].rev = "bootstrap.ts" /\ boot[b].ro
    /\ boot[b].pc = "done" /\ boot[b].exit = "readonly"
    /\ DepositsToPost # {} /\ WithdrawalsToPost # {} /\ PairsToPost # {}


(***************************************************************************)
(* Tip pairing: tips_try_pair, the insert trigger, postTipTransfer and the *)
(* pairing sweep                                                           *)
(***************************************************************************)
TipOutReasons == {"tip_out", "rain_out", "airdrop_out"}
TipInReasons == {"tip_in", "rain_in", "airdrop_in"}

\* the rows of public.tips a statement on connection c sees
VisibleTips(c) == tips \o tx[c].tips

\* the row of public.tips an INSERT ... ON CONFLICT DO NOTHING conflicts
\* with: the persisted schema declares a uniqueness for LedgerEntry, Deposit
\* and Withdrawal and none for TipAudit
TipsConflict(ts, row) == FALSE

\* SELECT l.id INTO match_ledger_id FROM ledger l WHERE ... ORDER BY l.id ASC
\* LIMIT 1, for the row r of the call (NullId: no row)
MatchOf(rows, ts, r) ==
  LET out == r.reason \in TipOutReasons
      cands ==
        {l \in rows :
           /\ l.reason \in (IF out THEN TipInReasons ELSE TipOutReasons)
           /\ l.user_id # r.user_id
           /\ Abs(l.delta_lites) = Abs(r.delta_lites)
           /\ Abs(CreatedAt(l.id) - CreatedAt(r.id)) <= 5
           /\ ~\E k \in 1..Len(ts) :
                 IF out
                 THEN ts[k].ledger_out_id = r.id \/ ts[k].ledger_in_id = l.id
                 ELSE ts[k].ledger_in_id = r.id \/ ts[k].ledger_out_id = l.id}
  IN IF cands = {} THEN NullId
     ELSE (CHOOSE l \in cands : \A m \in cands : l.id <= m.id).id

\* the first half of tips_try_pair(p_ledger_id): IF NOT FOUND THEN RETURN;
\* IF r_ledger.reason NOT IN (...) THEN RETURN; then the SELECT of the match
match_ledger_id(rows, ts, id) ==
  IF ~\E r \in rows : r.id = id THEN NullId
  ELSE LET r == CHOOSE x \in rows : x.id = id
       IN IF r.reason \notin TipOutReasons \cup TipInReasons THEN NullId
          ELSE MatchOf(rows, ts, r)

\* the second half: INSERT INTO tips ... SELECT ... FROM ledger l WHERE
\* l.id = match_ledger_id ON CONFLICT DO NOTHING
PairInsert(rows, ts, id, m) ==
  IF m = NullId \/ ~\E l \in rows : l.id = m THEN <<>>
  ELSE LET r == CHOOSE x \in rows : x.id = id
           l == CHOOSE x \in rows : x.id = m
           o == IF r.reason \in TipOutReasons THEN r ELSE l
           i == IF r.reason \in TipOutReasons THEN l ELSE r
           row == [from_user_id |-> o.user_id, to_user_id |-> i.user_id,
                   amount_lites |-> Abs(r.delta_lites),
                   ledger_out_id |-> o.id, ledger_in_id |-> i.id]
       IN IF TipsConflict(ts, row) THEN <<>> ELSE <<row>>

\* tips_try_pair run inside one statement of an open transaction
tips_try_pair(rows, ts, id) ==
  PairInsert(rows, ts, id, match_ledger_id(rows, ts, id))

\* AFTER INSERT ON ledger FOR EACH ROW: tips_trigger_fire() performs
\* tips_try_pair(NEW.id); what an INSERT of these rows on c adds to tips
tips_after_insert(c, new) ==
  IF new = {} THEN <<>>
  ELSE tips_try_pair(Visible(c) \cup new, VisibleTips(c),
                     (CHOOSE r \in new : TRUE).id)

\* a session of its own issues SELECT public.tips_try_pair(id): the function
\* selects the match ...
pair_select(id) ==
  /\ pair.pc = "idle"
  /\ pair.n < MaxCalls
  /\ LET m == match_ledger_id(Visible(PairConn), VisibleTips(PairConn), id)
     IN pair' = IF m = NullId THEN [NoPair EXCEPT !.n = pair.n + 1]
                ELSE [pc |-> "insert", id |-> id, match |-> m,
                      n |-> pair.n + 1]
  /\ UNCHANGED <<dbvars, last, xvars, svars, withdrawals, sent, wd, boot,
                 advlock, created_at, gate, uvars, qvars>>

\* ... and, in a statement of its own under READ COMMITTED, inserts the row
pair_insert ==
  /\ pair.pc = "insert"
  /\ Exec(PairConn,
          [NoWrite EXCEPT !.tips = PairInsert(Visible(PairConn),
                                              VisibleTips(PairConn),
                                              pair.id, pair.match)])
  /\ pair' = [NoPair EXCEPT !.n = pair.n]
  /\ UNCHANGED <<last, xvars, svars, withdrawals, sent, wd, boot, advlock,
                 created_at, gate, uvars, qvars>>

\* postTipTransfer: await db.query("BEGIN")
ptt_begin(p) ==
  /\ rev = "part_012"
  /\ xf[p].pc = "begin"
  /\ Begin(p)
  /\ xf' = [xf EXCEPT ![p].pc = "out"]
  /\ UNCHANGED <<bvars, svars, last, rev, clock, nfail>>

\* postLedger(db, fromUserId, -amountLites, "tip_out", ref, at), the SELECT
\* of the id when it returns null; the trigger fires inside the INSERT
ptt_out(p) ==
  /\ rev = "part_012"
  /\ xf[p].pc = "out"
  /\ ~KeyHeldElsewhere(p, "tip_out", xf[p].ref)
  /\ LET rows == insertLedgerRows(p, xf[p].from, 0 - xf[p].amt, "tip_out",
                                  xf[p].ref)
     IN /\ Exec(p, [NoWrite EXCEPT !.ledger = rows,
                                   !.tips = tips_after_insert(p, rows)])
        /\ xf' = [xf EXCEPT ![p].pc = "in",
                            ![p].outId =
                              IF rows = {}
                              THEN findLedgerIdByRef(p, "tip_out", xf[p].ref)
                              ELSE nextId]
  /\ UNCHANGED <<bvars, svars, last, rev, clock, nfail>>

\* postLedger(db, toUserId, amountLites, "tip_in", ref, at)
ptt_in(p) ==
  /\ rev = "part_012"
  /\ xf[p].pc = "in"
  /\ ~KeyHeldElsewhere(p, "tip_in", xf[p].ref)
  /\ LET rows == insertLedgerRows(p, xf[p].to, xf[p].amt, "tip_in", xf[p].ref)
     IN /\ Exec(p, [NoWrite EXCEPT !.ledger = rows,
                                   !.tips = tips_after_insert(p, rows)])
        /\ xf' = [xf EXCEPT ![p].pc = "pairOut",
                            ![p].inId =
                              IF rows = {}
                              THEN findLedgerIdByRef(p, "tip_in", xf[p].ref)
                              ELSE nextId]
  /\ UNCHANGED <<bvars, svars, last, rev, clock, nfail>>

\* if (outId != null) SELECT public.tips_try_pair($1::BIGINT), [outId]
ptt_pairOut(p) ==
  /\ rev = "part_012"
  /\ xf[p].pc = "pairOut"
  /\ Exec(p, [NoWrite EXCEPT !.tips =
                IF xf[p].outId = NullId THEN <<>>
                ELSE tips_try_pair(Visible(p), VisibleTips(p), xf[p].outId)])
  /\ xf' = [xf EXCEPT ![p].pc = "pairIn"]
  /\ UNCHANGED <<bvars, svars, last, rev, clock, nfail>>

\* if (inId != null) SELECT public.tips_try_pair($1::BIGINT), [inId]
ptt_pairIn(p) ==
  /\ rev = "part_012"
  /\ xf[p].pc = "pairIn"
  /\ Exec(p, [NoWrite EXCEPT !.tips =
                IF xf[p].inId = NullId THEN <<>>
                ELSE tips_try_pair(Visible(p), VisibleTips(p), xf[p].inId)])
  /\ xf' = [xf EXCEPT ![p].pc = "commit"]
  /\ UNCHANGED <<bvars, svars, last, rev, clock, nfail>>

\* tips paid before the trigger was installed, left unpaired: user 1 -> 2 of
\* one lite and user 1 -> 3 of m lites
LegacyTips(m) ==
  {[id |-> 1, user_id |-> 1, delta_lites |-> 0 - 1, reason |-> "tip_out",
    ref |-> "tip:a"],
   [id |-> 2, user_id |-> 2, delta_lites |-> 1, reason |-> "tip_in",
    ref |-> "tip:a"],
   [id |-> 3, user_id |-> 1, delta_lites |-> 0 - m, reason |-> "tip_out",
    ref |-> "tip:b"],
   [id |-> 4, user_id |-> 3, delta_lites |-> m, reason |-> "tip_in",
    ref |-> "tip:b"]}

\* the minutes at which the rows of LegacyTips were written: the first pair
\* three minutes apart, the second seven (inside the window of the sweep,
\* outside the window of tips_try_pair)
LegacyTimes ==
  [i \in 1..4 |-> IF i = 2 THEN 3 ELSE IF i = 4 THEN 7 ELSE 0]

\* two bootstrap instances are about to start, a session is about to call
\* tips_try_pair and user 2 tips user 3 one lite through postTipTransfer
InitPair ==
  /\ \E m \in Amounts : ledger = LegacyTips(m)
  /\ transferred_tip_lites = ZeroTtl
  /\ deposits = {}
  /\ tips = <<>>
  /\ tx = [c \in Conns |-> IdleTx]
  /\ nextId = 5
  /\ nextDepId = 1
  /\ eff = [p \in XProcs |-> {}]
  /\ last = NoCall
  /\ rev = "part_012"
  /\ xf = [p \in XProcs |->
             IF p = "p1"
             THEN [NewXf(<<2, 3>>, 1) EXCEPT !.pc = "begin", !.ref = "tip:c"]
             ELSE NoXf]
  /\ clock = 0
  /\ nfail = 0
  /\ ScanOff
  /\ withdrawals = {}
  /\ sent = {}
  /\ wd = [h \in WdProcs |-> NoWd]
  /\ boot = [b \in Boots |-> NoBoot]
  /\ advlock = "none"
  /\ created_at = LegacyTimes
  /\ pair = NoPair
  /\ gate = NoGate
  /\ UsersOff
  /\ QOff

NextPair ==
  \/ \E id \in 1..4 : pair_select(id)
  \/ pair_insert
  \/ \E p \in XProcs : ptt_begin(p)
  \/ \E p \in XProcs : ptt_out(p)
  \/ \E p \in XProcs : ptt_in(p)
  \/ \E p \in XProcs : ptt_pairOut(p)
  \/ \E p \in XProcs : ptt_pairIn(p)
  \/ \E p \in XProcs : transfer_commit(p)
  \/ \E p \in XProcs : transfer_rollback(p)
  \/ \E p \in XProcs : transfer_fail(p)
  \/ \E b \in Boots : boot_connect(b)
  \/ \E b \in Boots : boot_lock(b)
  \/ \E b \in Boots : boot_check(b)
  \/ \E b \in Boots : boot_update(b)
  \/ \E b \in Boots : boot_ddl(b)
  \/ \E b \in Boots : boot_deposits(b)
  \/ \E b \in Boots : boot_withdrawals(b)
  \/ \E b \in Boots : boot_pairing(b)
  \/ \E b \in Boots : boot_unlock(b)
  \/ \E b \in Boots : boot_end(b)

SpecPair == InitPair /\ [][NextPair]_vars

(***************************************************************************)
(* Claims about tip pairing                                                *)
(***************************************************************************)
\* the rows of tips that name ledger row id
TipRowsNaming(id) ==
  {k \in 1..Len(tips) :
     tips[k].ledger_out_id = id \/ tips[k].ledger_in_id = id}

\* C22: in every reachable state each ledger entry id appears in at most one
\* row of tips, as ledger_out_id or as ledger_in_id
C22_PairedAtMostOnce ==
  \A l \in ledger : Cardinality(TipRowsNaming(l.id)) <= 1


\* the rows of ts that link out row o and in row i
Links(ts, o, i) ==
  {k \in 1..Len(ts) : ts[k].ledger_out_id = o /\ ts[k].ledger_in_id = i}

\* the rows of ts that name ledger row x
Naming(ts, x) ==
  {k \in 1..Len(ts) : ts[k].ledger_out_id = x \/ ts[k].ledger_in_id = x}

\* a tip_out and a tip_in of different users, of equal amount, at most w
\* minutes apart, neither in a row of tips yet
Pairable(o, i, w) ==
  /\ o.reason \in TipOutReasons /\ i.reason \in TipInReasons
  /\ o.user_id # i.user_id
  /\ o.delta_lites = 0 - i.delta_lites
  /\ CreatedAt(i.id) - CreatedAt(o.id) \in (0 - w)..w
  /\ Naming(tips, o.id) = {} /\ Naming(tips, i.id) = {}

\* this step is a run of the pairing sweep
SweepRan ==
  \E b \in Boots :
    boot[b].pc = "pairing" /\ ~boot[b].ro /\ boot'[b].complete

\* this step completes a call of tips_try_pair that no other session has
\* overtaken between its two statements
CallRan ==
  /\ pair.pc = "insert"
  /\ pair'.pc = "idle"
  /\ match_ledger_id(Visible(PairConn), VisibleTips(PairConn), pair.id)
       = pair.match

\* C23: tip pairing is idempotent: a run of the pairing routine (the sweep, or
\* a call of tips_try_pair for either entry) links a pairable tip_out and
\* tip_in by one row of tips, and a run on entries that are in a row of tips
\* already adds no further row for them
C23_PairingIdempotent ==
  [][/\ (SweepRan \/ CallRan)
          => \A l \in ledger :
               Naming(tips, l.id) # {}
                 => Naming(tips', l.id) = Naming(tips, l.id)
     /\ SweepRan
          => \A o \in ledger, i \in ledger :
               Pairable(o, i, 10) => Cardinality(Links(tips', o.id, i.id)) = 1
     /\ CallRan
          => \E o \in ledger, i \in ledger :
               /\ {o.id, i.id} = {pair.id, pair.match}
               /\ Pairable(o, i, 5)
               /\ Cardinality(Links(tips', o.id, i.id)) = 1
               /\ Len(tips') = Len(tips) + 1]_vars

\* the tip of user 1 to user 2 is linked by one row after both bootstrap
\* instances have run the sweep and tips_try_pair has been called twice
C23_Witness ==
  /\ \A b \in Boots : boot[b].complete
  /\ pair.n = MaxCalls /\ pair.pc = "idle"
  /\ Cardinality(Links(tips, 1, 2)) = 1


(***************************************************************************)
(* Claims about the tip audit inside a transfer                            *)
(***************************************************************************)
\* the statement of the call that threw is the INSERT INTO public.tips
AuditFailed(p) ==
  /\ xf[p].res = "error"
  /\ "inc" \in xf[p].issued
  /\ "audit" \notin xf[p].issued

\* C24: a failure of the tip audit does not fail the transfer: when the
\* INSERT INTO public.tips of a call throws, the call still ends with its two
\* tip postings and both changes of transferred_tip_lites committed
C24_AuditFailureKeepsTransfer ==
  \A p \in XProcs :
    (xf[p].pc = "done" /\ AuditFailed(p))
      => /\ \E l \in ledger : l.reason = "tip_out" /\ l.ref = xf[p].ref
         /\ \E l \in ledger : l.reason = "tip_in" /\ l.ref = xf[p].ref
         /\ {"dec", "inc"} \subseteq eff[p]


\* C25: users.transferred_tip_lites is owned by the transfer engine: a step
\* that changes any user's committed transferred_tip_lites is the COMMIT of
\* a transfer, lowers the sender's by the amount, raises the receiver's by
\* the amount and makes the call's tip_out and tip_in rows visible with it;
\* deposit crediting, withdrawal recording and the bootstrap sweep leave it
\* unchanged
C25_AcceleratorOwnership ==
  [][transferred_tip_lites' # transferred_tip_lites
       => \E p \in XProcs :
            /\ xf[p].pc = "commit" /\ xf'[p].pc = "done"
            /\ transferred_tip_lites' =
                 [transferred_tip_lites EXCEPT ![xf[p].from] = @ - xf[p].amt,
                                               ![xf[p].to] = @ + xf[p].amt]
            /\ \E o \in ledger' \ ledger, i \in ledger' \ ledger :
                 /\ o.user_id = xf[p].from /\ o.delta_lites = 0 - xf[p].amt
                 /\ o.reason = "tip_out" /\ o.ref = xf[p].ref
                 /\ i.user_id = xf[p].to /\ i.delta_lites = xf[p].amt
                 /\ i.reason = "tip_in" /\ i.ref = xf[p].ref]_vars


InitSign == InitPost \/ Init

NextSign ==
  \/ (\A p \in XProcs : xf[p] = NoXf) /\ NextPost
  \/ Next

SpecSign == InitSign /\ [][NextSign]_vars

InReasons == {"deposit", "tip_in", "rain_in", "airdrop_in"}
OutReasons == {"withdrawal", "tip_out", "rain_out", "airdrop_out"}

\* C27: the sign of a row encodes its direction: the rows credit writes are
\* strictly positive and the rows debit writes strictly negative, a credit or
\* debit call with an amount <= 0 throws and writes nothing, and in every
\* state deposit and tip_in rows are positive, withdrawal and tip_out rows
\* negative
C27_SignEncodesDirection ==
  /\ [](\A l \in ledger :
          /\ l.reason \in InReasons => l.delta_lites > 0
          /\ l.reason \in OutReasons => l.delta_lites < 0)
  /\ [][last'.n # last.n
          => IF last'.amt <= 0
             THEN last'.threw /\ ledger' = ledger /\ tx' = tx
             ELSE /\ ~last'.threw
                  /\ \A l \in ledger' \ ledger :
                       IF last'.op = "credit" THEN l.delta_lites = last'.amt
                       ELSE l.delta_lites = 0 - last'.amt]_vars

\* a deposit was credited, a withdrawal debited, and a call with amount 0 has
\* been rejected
C27_Witness ==
  /\ last.threw /\ last.amt <= 0
  /\ \E l \in ledger : l.reason = "deposit"
  /\ \E l \in ledger : l.reason = "withdrawal"


\* C28: the ledger is append-only: every step keeps every row of the ledger
\* as it is, under its id
C28_AppendOnly ==
  [][\A l \in ledger :
       /\ l \in ledger'
       /\ \A m \in ledger' : m.id = l.id => m = l]_vars

\* a bootstrap instance has completed its sweeps, rows were appended after
\* the rows the run started with, and those are all there
C28_Witness ==
  /\ \E b \in Boots : boot[b].complete
  /\ \E l \in ledger : l.id >= 6
  /\ FundedLedger \cup LegacyTip \subseteq ledger


(***************************************************************************)
(* The RPC concurrency gate of the bot process (index.ts withRpcGate).     *)
(* The process has one thread: a callback of the event loop (an update, a  *)
(* database answer, an HTTP answer, a timer) runs when no promise job is   *)
(* queued, and the promise jobs it queues run first in, first out before   *)
(* the next callback.                                                      *)
(***************************************************************************)

\* handler k is resumed by a callback and will call withRpcGate(fn) in its
\* next job; one callback may start several handlers (a batch of updates)
gate_call(k) ==
  /\ gate.pc[k] = "idle"
  /\ gate.n[k] < MaxGateCalls
  /\ \A i \in 1..Len(gate.jobs) : gate.pc[gate.jobs[i]] = "call"
  /\ gate' = [gate EXCEPT !.pc[k] = "call", !.jobs = Append(@, k)]
  /\ UNCHANGED <<dbvars, last, xvars, svars, withdrawals, sent, wd, boot,
                 advlock, created_at, pair, uvars, qvars>>

\* if (rpcInflight >= MAX_RPC_INFLIGHT) await new Promise(res => rpcWaiters.push(res))
\* without a check
gate_enterAlways(k) ==
  /\ gate.jobs # <<>> /\ Head(gate.jobs) = k
  /\ gate.pc[k] = "call"
  /\ gate' = [gate EXCEPT !.rpcInflight = @ + 1, !.pc[k] = "fn",
                          !.jobs = Tail(@)]
  /\ UNCHANGED <<dbvars, last, xvars, svars, withdrawals, sent, wd, boot,
                 advlock, created_at, pair, uvars, qvars>>

\* withRpcGate up to its first await: a full gate parks the caller in
\* rpcWaiters, a free one counts it and starts fn()
gate_enter(k) ==
  /\ gate.jobs # <<>> /\ Head(gate.jobs) = k
  /\ gate.pc[k] = "call"
  /\ IF gate.rpcInflight >= MAX_RPC_INFLIGHT
       THEN gate' = [gate EXCEPT !.rpcWaiters = Append(@, k),
                                 !.pc[k] = "parked", !.jobs = Tail(@)]
       ELSE gate' = [gate EXCEPT !.rpcInflight = @ + 1, !.pc[k] = "fn",
                                 !.jobs = Tail(@)]
  /\ UNCHANGED <<dbvars, last, xvars, svars, withdrawals, sent, wd, boot,
                 advlock, created_at, pair, uvars, qvars>>

\* a woken waiter goes on after its await: rpcInflight++ with no second look
\* at the limit, then fn()
gate_resume(k) ==
  /\ gate.jobs # <<>> /\ Head(gate.jobs) = k
  /\ gate.pc[k] = "resume"
  /\ gate' = [gate EXCEPT !.rpcInflight = @ + 1, !.pc[k] = "fn",
                          !.jobs = Tail(@)]
  /\ UNCHANGED <<dbvars, last, xvars, svars, withdrawals, sent, wd, boot,
                 advlock, created_at, pair, uvars, qvars>>

\* fn() settles: rpc() awaits fetch, whose answer, failure or abort timer is
\* a callback of the event loop; the continuation of `await fn()` is queued
gate_settle(k) ==
  /\ gate.pc[k] = "fn"
  /\ gate.jobs = <<>>
  /\ gate' = [gate EXCEPT !.pc[k] = "finally", !.jobs = <<k>>]
  /\ UNCHANGED <<dbvars, last, xvars, svars, withdrawals, sent, wd, boot,
                 advlock, created_at, pair, uvars, qvars>>

\* finally { rpcInflight--; const next = rpcWaiters.shift(); if (next) next(); }
\* next() queues the waiter's continuation; the return then queues the
\* handler's, which calls the gate again (again) or is through
gate_finally(k) ==
  /\ gate.jobs # <<>> /\ Head(gate.jobs) = k
  /\ gate.pc[k] = "finally"
  /\ \E again \in BOOLEAN :
       LET woken == IF gate.rpcWaiters = <<>> THEN <<>>
                    ELSE <<Head(gate.rpcWaiters)>>
           more  == again /\ gate.n[k] + 1 < MaxGateCalls
           pc1   == [gate.pc EXCEPT ![k] = IF more THEN "call" ELSE "idle"]
       IN gate' = [gate EXCEPT
            !.rpcInflight = @ - 1,
            !.rpcWaiters = IF @ = <<>> THEN <<>> ELSE Tail(@),
            !.pc = IF woken = <<>> THEN pc1
                   ELSE [pc1 EXCEPT ![woken[1]] = "resume"],
            !.n[k] = @ + 1,
            !.jobs = Tail(@) \o woken \o (IF more THEN <<k>> ELSE <<>>)]
  /\ UNCHANGED <<dbvars, last, xvars, svars, withdrawals, sent, wd, boot,
                 advlock, created_at, pair, uvars, qvars>>

InitGate == InitPost

NextGate ==
  \/ \E k \in Callers : gate_call(k)
  \/ \E k \in Callers : gate_enter(k)
  \/ \E k \in Callers : gate_resume(k)
  \/ \E k \in Callers : gate_settle(k)
  \/ \E k \in Callers : gate_finally(k)

SpecGate == InitGate /\ [][NextGate]_vars

\* C29: the number of calls inside the gate never exceeds MAX_RPC_INFLIGHT,
\* whatever the order in which the callers arrive, park, resume and finish
C29_GateBound == gate.rpcInflight <= MAX_RPC_INFLIGHT

\* the gate is full but for the slot just freed, the woken waiter's
\* continuation is queued and the releasing handler's next call is behind it
C29_Witness ==
  \E k, j \in Callers :
    /\ gate.jobs = <<k, j>>
    /\ gate.pc[k] = "resume" /\ gate.pc[j] = "call"
    /\ gate.rpcInflight = MAX_RPC_INFLIGHT - 1


(***************************************************************************)
(* ensureUser (ledger.ts): one INSERT ... ON CONFLICT (tg_user_id) DO      *)
(* UPDATE per call, on a pool connection outside a transaction.  A text is *)
(* a sequence of characters.                                               *)
(***************************************************************************)
\* String.prototype.toLowerCase on the characters of the model
toLowerCase(ch) == IF ch = "A" THEN "a" ELSE IF ch = "B" THEN "b" ELSE ch

RECURSIVE trimStart(_)
trimStart(s) ==
  IF s # <<>> /\ Head(s) = " " THEN trimStart(Tail(s)) ELSE s

RECURSIVE trimEnd(_)
trimEnd(s) ==
  IF s # <<>> /\ s[Len(s)] = " " THEN trimEnd(SubSeq(s, 1, Len(s) - 1)) ELSE s

\* String.prototype.trim
trim(s) == trimEnd(trimStart(s))

\* normalize @username -> lowercase, no leading '@'
normUsername(u) ==
  IF u = Null \/ u = Text(<<>>) THEN Null
  ELSE LET s == trim(CHOOSE x \in u : TRUE)
           t == IF s # <<>> /\ Head(s) = "@" THEN Tail(s) ELSE s
       IN IF s = <<>> THEN Null
          ELSE Text([i \in 1..Len(t) |-> toLowerCase(t[i])])

\* SQL COALESCE(a, b)
COALESCE(a, b) == IF a # Null THEN a ELSE b

\* the row of public.users with this tg_user_id, in a set: UNIQUE (tg_user_id)
\* is the arbiter of ON CONFLICT
RowsOf(us, tgId) == {r \in us : r.tg_user_id = tgId}

\* ON CONFLICT (tg_user_id) DO UPDATE SET username = EXCLUDED.username
upsertPlain(us, id, tgId, uname) ==
  IF RowsOf(us, tgId) = {}
    THEN us \cup {[id |-> id, tg_user_id |-> tgId, username |-> uname]}
    ELSE {IF r.tg_user_id = tgId THEN [r EXCEPT !.username = uname] ELSE r :
            r \in us}

\* INSERT INTO public.users (tg_user_id, username) VALUES ($1,$2)
\* ON CONFLICT (tg_user_id) DO UPDATE SET username =
\*   COALESCE(EXCLUDED.username, public.users.username): the table after it;
\* id is the value the sequence gave the proposed row
upsert(us, id, tgId, uname) ==
  IF RowsOf(us, tgId) = {}
    THEN us \cup {[id |-> id, tg_user_id |-> tgId, username |-> uname]}
    ELSE {IF r.tg_user_id = tgId
            THEN [r EXCEPT !.username = COALESCE(uname, r.username)]
            ELSE r : r \in us}

\* the chat identities ensureUser is called for: 101 has a row, 7 has none
TgIds == {101, 7}
\* the usernames it is called with: none, empty, blank, and spellings of two
\* names
TgNames ==
  {Null, Text(<<>>), Text(<<" ">>), Text(<<"@", "A">>), Text(<<"a">>),
   Text(<<"A", " ">>), Text(<<"b">>)}

\* a handler calls ensureUser(tg): the query is sent
eu_call(p) ==
  /\ eu[p].pc = "idle"
  /\ eu[p].n < MaxEnsure
  /\ \E id \in TgIds, u \in TgNames :
       eu' = [eu EXCEPT ![p].pc = "query",
                        ![p].tg = [id |-> id, username |-> u]]
  /\ UNCHANGED <<dbvars, last, xvars, svars, withdrawals, sent, wd, boot,
                 advlock, created_at, pair, gate, users, users_id_seq,
                 qvars>>

\* the statement runs and commits; the sequence moves whether the proposed
\* row is inserted or not; RETURNING id, tg_user_id, username; res.rows[0]
eu_query(p) ==
  /\ eu[p].pc = "query"
  /\ LET tgId  == eu[p].tg.id
         uname == normUsername(eu[p].tg.username)
         after == upsert(users, users_id_seq + 1, tgId, uname)
     IN /\ users' = after
        /\ users_id_seq' = users_id_seq + 1
        /\ eu' = [eu EXCEPT ![p].pc = "idle", ![p].n = @ + 1,
                            ![p].row = CHOOSE r \in RowsOf(after, tgId) : TRUE]
  /\ UNCHANGED <<dbvars, last, xvars, svars, withdrawals, sent, wd, boot,
                 advlock, created_at, pair, gate, qvars>>

InitUser == InitPost

NextUser ==
  \/ \E p \in EuProcs : eu_call(p)
  \/ \E p \in EuProcs : eu_query(p)

SpecUser == InitUser /\ [][NextUser]_vars

\* the call that returns in this step
EuReturns(p) == eu[p].pc = "query" /\ eu'[p].pc = "idle"

\* a call without a username: none given, or an empty or blank one
NoUsername(u) == u = Null \/ u = Text(<<>>) \/ u = Text(<<" ">>)

\* C30: calls of ensureUser with one tg_user_id, one after the other or at the
\* same time, leave one users row for it and all return that row's id, and a
\* call without a username leaves the stored username as it was
C30_EnsureUserIdempotent ==
  /\ [](\A r1, r2 \in users :
          (r1.tg_user_id = r2.tg_user_id \/ r1.id = r2.id) => r1 = r2)
  /\ [][\A p \in EuProcs : EuReturns(p) =>
          LET tgId == eu[p].tg.id
          IN /\ Cardinality(RowsOf(users', tgId)) = 1
             /\ eu'[p].row \in users'
             /\ eu'[p].row.tg_user_id = tgId
             /\ \A r \in RowsOf(users, tgId) :
                  /\ eu'[p].row.id = r.id
                  /\ NoUsername(eu[p].tg.username) =>
                       eu'[p].row.username = r.username
             /\ \A q \in EuProcs :
                  (eu[q].n > 0 /\ eu[q].row.tg_user_id = tgId) =>
                    eu'[p].row.id = eu[q].row.id
             /\ \A r \in users : r.tg_user_id # tgId => r \in users'
        ]_vars

\* both callers have called for chat 7, the second time without a username,
\* and its row still has the name the first call stored
C30_Witness ==
  /\ \A p \in EuProcs : eu[p].n = MaxEnsure /\ eu[p].row.tg_user_id = 7
  /\ \E p \in EuProcs : NoUsername(eu[p].tg.username)
  /\ \E r \in users : r.tg_user_id = 7 /\ r.username = Text(<<"a">>)
  /\ users_id_seq > Cardinality(users)


\* the window of the routine that runs in this step, in minutes: 600 s for the
\* sweep, 5 minutes for tips_try_pair
WindowNow == IF SweepRan THEN 10 ELSE 5

\* o and i are a candidate pair before this step: an outbound and an inbound
\* tip-class row of ledger', of different users, of equal absolute amount,
\* within the window, neither in a row of tips
Candidate(o, i) ==
  /\ o.reason \in TipOutReasons /\ i.reason \in TipInReasons
  /\ o.user_id # i.user_id
  /\ Abs(o.delta_lites) = Abs(i.delta_lites)
  /\ Abs(CreatedAt(i.id) - CreatedAt(o.id)) <= WindowNow
  /\ Naming(tips, o.id) = {} /\ Naming(tips, i.id) = {}

\* the rows of tips' added in this step
Added == (Len(tips) + 1)..Len(tips')

\* C31: every row the auditor adds to tips pairs an outbound tip-class entry
\* with an inbound one of a different user, of equal absolute amount, within
\* the window, neither of them in a row of tips before; of the entries that
\* qualify for the entry the routine ran for it pairs the one with the lowest
\* id, and no other
C31_CandidateSelection ==
  [][/\ \A k \in Added :
          \E o, i \in ledger' :
            /\ o.id = tips'[k].ledger_out_id /\ i.id = tips'[k].ledger_in_id
            /\ Candidate(o, i)
            /\ \/ \A j \in ledger' : Candidate(o, j) => i.id <= j.id
               \/ \A j \in ledger' : Candidate(j, i) => o.id <= j.id
     /\ \A k, m \in Added :
          (tips'[k].ledger_out_id = tips'[m].ledger_out_id
             \/ tips'[k].ledger_in_id = tips'[m].ledger_in_id) => k = m
    ]_vars


(***************************************************************************)
(* The explorer scan alone, over transactions the explorer reports as      *)
(* unconfirmed, without a block height, or in a block above the tip it     *)
(* reports                                                                 *)
(***************************************************************************)
\* the statuses the explorer gives a transaction (block_height 0: none given)
Statuses ==
  {[confirmed |-> c, block_height |-> h] :
     c \in BOOLEAN, h \in {0, 1, 2, MIN_CONF + 2}}

InitConf ==
  /\ InitDb
  /\ last = NoCall
  /\ rev = "ledger.ts"
  /\ xf = [p \in XProcs |-> NoXf]
  /\ clock = 0
  /\ nfail = 0
  /\ tip \in {0, InitTip - 1, InitTip}
  /\ \E s1, s2 \in Statuses :
       chain = [send |-> [t \in Txids |-> FALSE],
                pays |-> [o \in Outs |-> IF o.vout = 0 THEN "A1" ELSE "A2"],
                status |-> [t \in Txids |-> IF t = "t1" THEN s1 ELSE s2]]
  /\ scan = [w \in Workers |-> NoScan]
  /\ obs = [o \in Outs |-> {}]
  /\ nscan = 0
  /\ BootOff

NextConf ==
  \/ scan_start("w2", "explorer")
  \/ scan_item("w2")
  \/ scan_end("w2")
  \/ scan_begin("w2")
  \/ scan_insert("w2")
  \/ scan_credit("w2")
  \/ scan_commit("w2")
  \/ scan_rollback("w2")
  \/ scan_fail("w2")
  \/ Mine

SpecConf == InitConf /\ [][NextConf]_vars

\* the count the claim gives transaction t at tip tp
CountOf(t, tp) ==
  LET s == chain.status[t]
  IN IF s.confirmed /\ s.block_height # 0
       THEN (IF tp - s.block_height + 1 > 0 THEN tp - s.block_height + 1 ELSE 0)
       ELSE 0

\* C32: the explorer scan counts max(0, tip - h + 1) confirmations for a
\* confirmed transaction in block h, and 0 for one that is unconfirmed or has
\* no block height; with MIN_CONFIRMATIONS >= 1 it neither lists nor records
\* nor credits an output whose count is below the threshold
C32_ExplorerConfirmations ==
  /\ \A w \in Workers : \A k \in 1..Len(scan[w].todo) :
       /\ scan[w].todo[k].confirmations = CountOf(scan[w].todo[k].txid, scan[w].tip)
       /\ scan[w].todo[k].confirmations >= MIN_CONF
  /\ \A d \in deposits \cup UNION {tx[c].deps : c \in Conns} :
       CountOf(d.txid, tip) >= MIN_CONF
  /\ \A l \in ledger \cup UNION {tx[c].ledger : c \in Conns} :
       l.reason = "deposit" =>
         \E o \in Outs : /\ l.ref = DepRef(o.txid, o.vout)
                          /\ CountOf(o.txid, tip) >= MIN_CONF

\* a cycle has listed and credited the outputs of one transaction while the
\* other, which the explorer reports without a block height, has none
C32_Witness ==
  /\ \E l \in ledger : l.reason = "deposit"
  /\ \E t \in Txids :
       /\ chain.status[t].confirmed /\ chain.status[t].block_height = 0
       /\ \A d \in deposits : d.txid # t
  /\ scan["w2"].pc = "idle" /\ nscan > 0


(***************************************************************************)
(* getOrAssignDepositAddress (index.ts): the /deposit commands of one      *)
(* user, the node's labelled addresses, users.deposit_address              *)
(***************************************************************************)
\* the k-th address the node makes under the label
AddrNo(k) == Text("n" \o ToString(k))

\* a /deposit command reaches getOrAssignDepositAddress:
\* SELECT deposit_address FROM users WHERE id = $1; if (saved) return saved
da_select(p) ==
  /\ da[p].pc = "idle"
  /\ da[p].n < MaxAsk
  /\ da' = [da EXCEPT ![p] =
       IF deposit_address # Null
         THEN [@ EXCEPT !.ret = deposit_address, !.n = @ + 1]
         ELSE [@ EXCEPT !.pc = "r1", !.addr = Null]]
  /\ UNCHANGED <<base, rp, tg, deposit_address, labelled>>

\* r1 = rpcTry("getaddressesbylabel", [label], 3000): the first key of the
\* answer, or nothing when the call fails or the label has no address
da_getaddressesbylabel(p) ==
  /\ da[p].pc = "r1"
  /\ \E ok \in BOOLEAN :
       LET addr == IF ok /\ labelled # <<>> THEN Head(labelled) ELSE Null
       IN da' = [da EXCEPT ![p].addr = addr,
                           ![p].pc = IF addr # Null THEN "update" ELSE "r2"]
  /\ UNCHANGED <<base, rp, tg, deposit_address, labelled>>

\* r2 = rpcTry("getnewaddress", [label], 3000): the node makes an address and
\* answers (ok), or the call fails before the node has seen it (lost), or the
\* 3 s pass after the node has made the address (late);
\* if (!addr) throw new Error("DEPOSIT_ADDR_FAILED")
da_getnewaddress(p) ==
  /\ da[p].pc = "r2"
  /\ \E how \in {"ok", "lost", "late"} :
       LET new == AddrNo(Len(labelled) + 1)
       IN /\ labelled' = IF how = "lost" THEN labelled
                         ELSE Append(labelled, new)
          /\ da' = [da EXCEPT ![p] =
               IF how = "ok" THEN [@ EXCEPT !.addr = new, !.pc = "update"]
               ELSE [@ EXCEPT !.pc = "idle", !.n = @ + 1]]
  /\ UNCHANGED <<base, rp, tg, deposit_address>>

\* UPDATE users SET deposit_address = COALESCE(deposit_address, $1)
\* WHERE id = $2; return addr
da_update(p) ==
  /\ da[p].pc = "update"
  /\ deposit_address' = COALESCE(deposit_address, da[p].addr)
  /\ da' = [da EXCEPT ![p].pc = "idle", ![p].ret = da[p].addr,
                      ![p].n = @ + 1]
  /\ UNCHANGED <<base, rp, tg, labelled>>

\* the user has no stored address and the node none under the label
InitAddr == InitPost

NextAddr ==
  \/ \E p \in DaProcs : da_select(p)
  \/ \E p \in DaProcs : da_getaddressesbylabel(p)
  \/ \E p \in DaProcs : da_getnewaddress(p)
  \/ \E p \in DaProcs : da_update(p)

SpecAddr == InitAddr /\ [][NextAddr]_vars

\* C33: once a call of getOrAssignDepositAddress has returned an address for
\* the user, every call that returns, later or at the same time, returns that
\* address, and the stored deposit_address does not change once it is set
C33_AddressStable ==
  [][/\ deposit_address # Null => deposit_address' = deposit_address
     /\ \A p, q \in DaProcs :
          (da'[p].ret # da[p].ret /\ da[q].ret # Null)
            => da'[p].ret = da[q].ret
    ]_vars


(***************************************************************************)
(* rpc() with its one retry (part_005).  An error is what the catch block  *)
(* looks at: whether e.code is a number, and which of the words it tests   *)
(* for are in String(e)                                                    *)
(***************************************************************************)
\* const maxAttempts = 2
maxAttempts == 2

\* the words of the transient test
TransientWords ==
  {"rpc_timeout", "timed out", "ETIMEDOUT", "ECONNRESET", "fetch failed",
   "network"}

\* what one attempt ends with ("reached": the node has received the request).
\* HTTP 200 with a result; HTTP 200 with error {code, message}; a status that
\* is not ok: Error(`RPC HTTP ${status}: ...`); fetch rejecting with
\* TypeError("fetch failed"); the timeout, which is the DOMException
\* TimeoutError of AbortSignal.timeout (legacy code 23) or the
\* Error("rpc_timeout") the manual controller aborts with
Outcomes(native) ==
  {[kind |-> "result", code |-> FALSE, text |-> {}, reached |-> TRUE],
   [kind |-> "jsonrpc", code |-> TRUE, text |-> {}, reached |-> TRUE]}
  \cup {[kind |-> "http", code |-> FALSE, text |-> {st}, reached |-> TRUE] :
          st \in {"401", "403", "500"}}
  \cup {[kind |-> "network", code |-> FALSE, text |-> {"fetch failed"},
         reached |-> r] : r \in BOOLEAN}
  \cup {[kind |-> "timeout", code |-> native,
         text |-> IF native THEN {} ELSE {"rpc_timeout"}, reached |-> r] :
          r \in BOOLEAN}

\* if (e && (typeof e.code === "number" || /401|403/.test(String(e)))) throw e
Logical(e) == e.code \/ e.text \cap {"401", "403"} # {}

\* every error counts as transient
transientAny(e) == TRUE

\* const transient = msg.includes("rpc_timeout") || ... || msg.includes("network")
transient(e) == e.text \cap TransientWords # {}

\* a caller calls rpc(method, params, timeoutMs): the loop starts
rpc_call(p) ==
  /\ rp.call[p].pc = "idle"
  /\ rp.call[p].attempt = 0
  /\ rp' = [rp EXCEPT !.call[p].pc = "fetch", !.call[p].attempt = 1]
  /\ UNCHANGED <<base, avars, tg>>

\* await fetch(...); if (!res.ok) throw; if (data?.error) throw;
\* return data.result
rpc_fetch(p) ==
  /\ rp.call[p].pc = "fetch"
  /\ \E o \in Outcomes(rp.native) :
       rp' = [rp EXCEPT
         !.call[p].reached = IF o.reached THEN @ + 1 ELSE @,
         !.call[p].pc = IF o.kind = "result" THEN "done" ELSE "catch",
         !.call[p].res = IF o.kind = "result" THEN "result" ELSE @,
         !.call[p].errs = IF o.kind = "result" THEN @ ELSE Append(@, o)]
  /\ UNCHANGED <<base, avars, tg>>

\* catch (e): rethrow a logical or auth error; if (attempt < maxAttempts &&
\* transient) { await sleep(150); continue; } throw e
rpc_catch(p) ==
  /\ rp.call[p].pc = "catch"
  /\ LET e == rp.call[p].errs[Len(rp.call[p].errs)]
         again == /\ ~Logical(e)
                  /\ rp.call[p].attempt < maxAttempts
                  /\ transient(e)
     IN rp' = [rp EXCEPT
          !.call[p].pc = IF again THEN "sleep" ELSE "done",
          !.call[p].res = IF again THEN @ ELSE "error"]
  /\ UNCHANGED <<base, avars, tg>>

\* the 150 ms are over: attempt++
rpc_retry(p) ==
  /\ rp.call[p].pc = "sleep"
  /\ rp' = [rp EXCEPT !.call[p].pc = "fetch", !.call[p].attempt = @ + 1]
  /\ UNCHANGED <<base, avars, tg>>

InitRpc ==
  /\ InitDb
  /\ last = NoCall
  /\ rev = "ledger.ts"
  /\ xf = [p \in XProcs |-> NoXf]
  /\ clock = 0
  /\ nfail = 0
  /\ ScanOff
  /\ created_at = NoLegacy
  /\ pair = NoPair
  /\ gate = NoGate
  /\ UsersOff
  /\ withdrawals = {}
  /\ sent = {}
  /\ wd = [h \in WdProcs |-> NoWd]
  /\ boot = [b \in Boots |-> NoBoot]
  /\ advlock = "none"
  /\ AddrOff
  /\ tg = NoTg
  /\ \E n \in BOOLEAN : rp = [native |-> n, call |-> [p \in RpcProcs |-> NoRpc]]

NextRpc ==
  \/ \E p \in RpcProcs : rpc_call(p)
  \/ \E p \in RpcProcs : rpc_fetch(p)
  \/ \E p \in RpcProcs : rpc_catch(p)
  \/ \E p \in RpcProcs : rpc_retry(p)

SpecRpc == InitRpc /\ [][NextRpc]_vars

NewDepositRef == "td:0"

\* worker.ts: credit(user.id, amountLites, "deposit", `${txid}:${vout}`) for
\* an output of 1 to the address of user 1
deposit_arrives ==
  /\ ~\E l \in ledger : l.ref = NewDepositRef
  /\ \E c \in PoolConn : credit(c, 1, 1, "deposit", NewDepositRef)
  /\ UNCHANGED <<last, xvars, svars, bvars>>

\* a tip of 1 from user 1 to user 2 that has committed in this millisecond
EarlierTip ==
  {[id |-> 4, user_id |-> 1, delta_lites |-> 0 - 1, reason |-> "tip_out",
    ref |-> TipRef(0, 1, 2, 1)],
   [id |-> 5, user_id |-> 2, delta_lites |-> 1, reason |-> "tip_in",
    ref |-> TipRef(0, 1, 2, 1)]}

\* user 1 holds 3, or has tipped 1 of them a moment ago; one /tip command and
\* two /withdraw commands of user 1 come in, each for 1 or 2
InitOver ==
  /\ \E e \in BOOLEAN :
       /\ ledger = FundedLedger \cup (IF e THEN EarlierTip ELSE {})
       /\ transferred_tip_lites =
            [u \in Users |-> IF ~e THEN 0 ELSE IF u = 1 THEN 0 - 1
                                       ELSE IF u = 2 THEN 1 ELSE 0]
       /\ tips = IF e THEN <<[from_user_id |-> 1, to_user_id |-> 2,
                              amount_lites |-> 1, ledger_out_id |-> 4,
                              ledger_in_id |-> 5]>>
                 ELSE <<>>
       /\ nextId = IF e THEN 6 ELSE 4
  /\ deposits = {}
  /\ tx = [c \in Conns |-> IdleTx]
  /\ nextDepId = 1
  /\ eff = [p \in XProcs |-> {}]
  /\ last = NoCall
  /\ rev = "part_013"
  /\ \E m \in Amounts :
       xf = [p \in XProcs |-> IF p = "p1" THEN NewXf(<<1, 2>>, m) ELSE NoXf]
  /\ clock = 0
  /\ nfail = 0
  /\ ScanOff
  /\ QOff
  /\ created_at = NoLegacy
  /\ pair = NoPair
  /\ gate = NoGate
  /\ UsersOff
  /\ withdrawals = {}
  /\ sent = {}
  /\ \E m1, m2 \in Amounts :
       wd = [h \in WdProcs |-> NewWd(1, "X", IF h = "h1" THEN m1 ELSE m2)]
  /\ boot = [b \in Boots |-> NoBoot]
  /\ advlock = "none"

NextOver ==
  \/ Next
  \/ \E h \in WdProcs : wd_check(h)
  \/ \E h \in WdProcs : wd_send_ok(h)
  \/ \E h \in WdProcs : wd_send_fail(h)
  \/ \E h \in WdProcs : wd_insert(h)
  \/ \E h \in WdProcs : wd_debit(h)
  \/ \E h \in WdProcs : wd_fail(h)
  \/ deposit_arrives

SpecOver == InitOver /\ [][NextOver]_vars

\* C35: under any interleaving of the transfer and withdraw commands of one
\* user, with deposits arriving at any time, the balance of no user is
\* negative
C35_NoOverdraft == \A u \in Users : balanceLites(u) >= 0


\* the transfer calls that have committed
CommittedTransfers == {p \in XProcs : xf[p].res = "ok"}

\* C36: every committed transfer posts its own ledger rows: there are as many
\* tip_out entries, and as many tip_in entries, as committed transfers, also
\* for two transfers with one sender, receiver and amount in one millisecond;
\* and a transfer whose ledger inserts added no row leaves
\* transferred_tip_lites alone
C36_OwnLedgerRows ==
  /\ Cardinality({l \in ledger : l.reason = "tip_out"})
       = Cardinality(CommittedTransfers)
  /\ Cardinality({l \in ledger : l.reason = "tip_in"})
       = Cardinality(CommittedTransfers)
  /\ \A p \in XProcs :
       eff[p] \cap {"dec", "inc"} # {} => {"out", "in"} \subseteq eff[p]


(***************************************************************************)
(* Specification of the polling loop alone, under weak fairness: main      *)
(* starts cycle after cycle, and every statement a cycle awaits returns    *)
(* or throws                                                               *)
(***************************************************************************)
NextLoop ==
  \/ \E w \in Workers : \E mode \in ModesOf(w) : scan_start(w, mode)
  \/ \E w \in Workers : scan_item(w)
  \/ \E w \in Workers : scan_end(w)
  \/ \E w \in Workers : scan_begin(w)
  \/ \E w \in Workers : scan_insert(w)
  \/ \E w \in Workers : scan_credit(w)
  \/ \E w \in Workers : scan_commit(w)
  \/ \E w \in Workers : scan_rollback(w)
  \/ \E w \in Workers : scan_fail(w)
  \/ Mine

\* the steps of the cycle of scanner w
scan_step(w) ==
  \/ scan_item(w) \/ scan_end(w) \/ scan_begin(w) \/ scan_insert(w)
  \/ scan_credit(w) \/ scan_commit(w) \/ scan_rollback(w)

SpecLoop ==
  /\ InitScanLive
  /\ [][NextLoop]_vars
  /\ \A w \in Workers : WF_vars(\E mode \in ModesOf(w) : scan_start(w, mode))
  /\ \A w \in Workers : WF_vars(scan_step(w))

\* output o has MIN_CONF confirmations, pays a user's address and is not
\* change
Eligible(o) == IsDeposit(o) /\ tip - HeightOf[o.txid] + 1 >= MIN_CONF

\* the run has a cycle left to start for each failure that may still come,
\* and one more
CyclesLeft == MaxScans - nscan >= (MaxFail - nfail) + 1

Opposite(p, q) ==
  p # q /\ xf[p].from = xf[q].to /\ xf[p].to = xf[q].from

\* C38: concurrent transfers in opposite directions between two users do not
\* deadlock: in no state does each of the two transactions wait for a users
\* row that the other has locked
C38_NoDeadlock ==
  \A p, q \in XProcs :
    Opposite(p, q) => ~(BlockedBy(p, q) /\ BlockedBy(q, p))


\* C39: one /withdraw command calls rpc("sendtoaddress") once (index.ts
\* rpcTry), and of one such call at most one request reaches the coin node,
\* also when the first attempt times out on the side of the caller
C39_OneSendRequest == \A p \in RpcProcs : rp.call[p].reached <= 1


(***************************************************************************)
(* The outbound message queue (tg.js: queueSend, runQueue).  The code      *)
(* between two awaits runs without interruption: queueSend with the start  *)
(* of runQueue is one step, and so is the runner from one await to the     *)
(* next.  Jobs are numbered in the order of their queueSend calls.         *)
(***************************************************************************)
\* queue.push(job)
push(q, job) == Append(q, job)

\* the job re-queued behind the jobs that wait
unshiftLast(q, job) == Append(q, job)

\* queue.unshift(job)
unshift(q, job) == <<job>> \o q

\* while (queue.length) { const job = queue.shift()!; try { await job() ...:
\* the runner at the head of its loop, up to the await; with an empty queue
\* it leaves the loop, and finally { running = false }
loop(t) ==
  IF t.queue = <<>>
  THEN [t EXCEPT !.running = FALSE, !.pc = "idle", !.job = 0]
  ELSE [t EXCEPT !.queue = Tail(@), !.job = Head(t.queue), !.pc = "job",
                 !.log = Append(@, Head(t.queue)), !.inflight = @ + 1]

\* if (running) return; running = true; try { while ...
runQueue(t) == IF t.running THEN t ELSE loop([t EXCEPT !.running = TRUE])

\* queueSend(telegram, chatId, text, extra): queue.push(...); void runQueue()
queueSend ==
  /\ tg.n < MaxJobs
  /\ tg' = runQueue([tg EXCEPT !.queue = push(@, tg.n + 1), !.n = @ + 1])
  /\ UNCHANGED <<base, avars, rp>>

\* telegram.sendMessage resolves: await sleep(SPACING_MS)
tg_sent ==
  /\ tg.pc = "job"
  /\ tg' = [tg EXCEPT !.pc = "spacing", !.inflight = @ - 1]
  /\ UNCHANGED <<base, avars, rp>>

\* the job rejects without retry_after: console.warn, await sleep(SPACING_MS);
\* the job is dropped
tg_error ==
  /\ tg.pc = "job"
  /\ tg' = [tg EXCEPT !.pc = "spacing", !.inflight = @ - 1, !.job = 0]
  /\ UNCHANGED <<base, avars, rp>>

\* the job rejects with parameters.retry_after: await sleep((retry + 1) * 1000)
tg_flood ==
  /\ tg.pc = "job"
  /\ tg.floods < MaxFlood
  /\ tg' = [tg EXCEPT !.pc = "flood", !.inflight = @ - 1, !.floods = @ + 1]
  /\ UNCHANGED <<base, avars, rp>>

\* the flood-wait is over: queue.unshift(job); continue
tg_requeue ==
  /\ tg.pc = "flood"
  /\ tg' = loop([tg EXCEPT !.queue = unshift(@, tg.job)])
  /\ UNCHANGED <<base, avars, rp>>

\* the pause between two sends is over: the loop goes on
tg_next ==
  /\ tg.pc = "spacing"
  /\ tg' = loop(tg)
  /\ UNCHANGED <<base, avars, rp>>

InitQueue == InitPost

NextQueue ==
  \/ queueSend
  \/ tg_sent
  \/ tg_error
  \/ tg_flood
  \/ tg_requeue
  \/ tg_next

\* every promise the runner awaits settles: sendMessage resolves or rejects,
\* the timers of sleep fire
SpecQueue ==
  /\ InitQueue
  /\ [][NextQueue]_vars
  /\ WF_vars(tg_sent \/ tg_error \/ tg_flood)
  /\ WF_vars(tg_requeue)
  /\ WF_vars(tg_next)

\* job j has been attempted
Attempted(j) == \E i \in DOMAIN tg.log : tg.log[i] = j

\* the attempts go through the jobs in the order of their queueSend calls; an
\* attempt is followed by the next attempt of the same job or by the first
\* attempt of the job queued after it
InOrder ==
  /\ tg.log # <<>> => tg.log[1] = 1
  /\ \A i \in 1..(Len(tg.log) - 1) :
       tg.log[i + 1] \in {tg.log[i], tg.log[i] + 1}

\* C40: queued send jobs run one at a time and in the order they were queued,
\* under any interleaving of queueSend calls; a job rejected with a flood-wait
\* is run again before any job queued later starts; no job is left in the
\* queue with no runner active, and every queued job is eventually attempted
C40_QueueOrder ==
  /\ [](/\ InOrder
        /\ tg.inflight <= 1
        /\ tg.queue # <<>> => tg.running
        /\ tg.running <=> tg.pc # "idle")
  /\ \A j \in 1..MaxJobs : (tg.n >= j) ~> Attempted(j)

\* a job that met a flood-wait is being run again while a job queued later
\* waits
C40_Witness ==
  /\ tg.pc = "job"
  /\ tg.floods > 0
  /\ tg.queue # <<>>
  /\ Len(tg.log) >= 2
  /\ tg.log[Len(tg.log)] = tg.log[Len(tg.log) - 1]

====
